---- MODULE Spec2Model ----
(***************************************************************************)
(* Model of the concurrent fetch engine of stock-processing:               *)
(*   - AsyncSessionManager (src/src/async_session_manager.py): the shared  *)
(*     aiohttp session, the Semaphore(2) admission gate and the            *)
(*     retry-once-on-429 request loop;                                     *)
(*   - StockDataOrchestrator / ETFDataOrchestrator: asyncio.gather fan-out *)
(*     of the per-data-type fetches and the merge by data_type;            *)
(*   - the shutdown hook of main.py, which calls close_session.            *)
(*                                                                         *)
(* Scheduling is asyncio's: one event loop, a task runs without            *)
(* interruption from one await that suspends to the next.  Every action    *)
(* below is one such uninterrupted stretch of code.                        *)
(***************************************************************************)
EXTENDS Integers, Sequences, FiniteSets, TLC

(***************************************************************************)
(* Bounds of the model.                                                    *)
(***************************************************************************)
\* number of route calls (e.g. /stocks/{ticker}/quote) that run next to an
\* ETF compose call and share the session manager with it
MaxDirect == 1
\* number of 429 answers the upstream gives in a run with the ETF compose call
MaxThrottled == 2
\* number of answers other than 200 and 429 the upstream gives in such a run
MaxErrors == 2
\* number of answers other than 200 (429 or other) the upstream gives in a run
\* with the stock compose call, whose seven fetches make the state space large
StockMaxNot200 == 1

(***************************************************************************)
(* Values.                                                                 *)
(***************************************************************************)
None == 0                          \* Python None, for a session reference
Statuses == {200, 429, 500}

\* the controllers (fetchers) and the orchestrators that use them
Composes == {"stock", "etf"}

Fanout(c) ==
    IF c = "stock"
    THEN <<"hdc", "tsdc", "bsdc", "cdc", "idc", "ratios_dc", "revenue_dc">>
    ELSE <<"hdc", "tsdc">>

AssetType(c) == IF c = "stock" THEN "stock" ELSE "etf"

\* the data_type tag of the balance sheet envelope
BalanceSheetDataType == "balance_sheet"

DataTypeSwapped(ctrl) ==
    CASE ctrl = "hdc"        -> "historical"
      [] ctrl = "tsdc"       -> "historical"
      [] ctrl = "bsdc"       -> BalanceSheetDataType
      [] ctrl = "cdc"        -> "cash_flow"
      [] ctrl = "idc"        -> "income"
      [] ctrl = "ratios_dc"  -> "ratios"
      [] ctrl = "revenue_dc" -> "revenue"
      [] OTHER               -> "quote"

\* the 'data_type' each controller writes into its envelope
DataType(ctrl) ==
    CASE ctrl = "hdc"        -> "historical"
      [] ctrl = "tsdc"       -> "time_series"
      [] ctrl = "bsdc"       -> BalanceSheetDataType
      [] ctrl = "cdc"        -> "cash_flow"
      [] ctrl = "idc"        -> "income"
      [] ctrl = "ratios_dc"  -> "ratios"
      [] ctrl = "revenue_dc" -> "revenue"
      [] OTHER               -> "quote"

\* the envelope a controller returns for the JSON body b of its request; the
\* decoded payload is kept abstract as "ctrl's decoding of b"
Envelope(ctrl, b) == [data_type |-> DataType(ctrl), data |-> <<ctrl, b>>]

\* tasks: one per fanned-out fetch of a compose call, one per direct route call
ComposeTasks(c) == {<<c, i>> : i \in 1..Len(Fanout(c))}
DirectTasks == {<<"direct", k>> : k \in 1..MaxDirect}
Tasks == ComposeTasks("stock") \cup ComposeTasks("etf") \cup DirectTasks

Controller(t) == IF t[1] = "direct" THEN "qdc" ELSE Fanout(t[1])[t[2]]

\* identities for connection contexts; an identity is reused only once no one
\* references the closed context that carried it
SessionIds == 1..(2 * Cardinality(Tasks) + 2)

NoTask == <<"none", 0>>
\* JSON bodies: <<t, n>> is the body of the response to the n-th request of
\* task t; NoBody stands for a response without a JSON body and for None
NoBody == <<NoTask, 0>>
NoExc == [task |-> NoTask, status |-> 0]
NoOutcome == [kind |-> "none", body |-> NoBody, exc |-> NoExc]
EmptyDict == [k \in {} |-> <<"", NoBody>>]
NoFinal == [kind |-> "none", ticker |-> "", asset_type |-> "", data |-> EmptyDict, exc |-> NoExc]
Ticker == "T"
\* the Retry-After header of a 429 answer, as its decimal digits; NoHeader
\* stands for an answer without the header
NoHeader == <<>>
RetryAfterHeaders == {NoHeader, <<1, 0>>}
\* a call that has read no header and has no retry_after
NoBackoff == [header |-> NoHeader, retry_after |-> 0]

(***************************************************************************)
(* JSON values and the Python operations the controllers apply to them     *)
(***************************************************************************)
\* a JSON value is a pair <<type, content>>: its Python type first, so that two
\* values of different types are unequal whatever their contents.  A dict is
\* the sequence of its <<key, value>> items, in insertion order
JNull == <<"NoneType", 0>>
JTrue == <<"bool", 1>>
JNum(n) == <<"int", n>>
JFloat(n) == <<"float", n>>
JStr(s) == <<"str", s>>
JList(items) == <<"list", items>>
JDict(items) == <<"dict", items>>
\* the asyncio.Task object create_task returns (not a JSON value)
TaskHandle == <<"Task", 0>>
Tag(j) == j[1]
Val(j) == j[2]

\* 'not x' for the values above; a Task object is always true
Falsy(j) ==
    \/ Tag(j) = "NoneType"
    \/ (Tag(j) \in {"int", "float", "bool"} /\ Val(j) = 0)
    \/ (Tag(j) = "str" /\ Val(j) = "")
    \/ (Tag(j) \in {"list", "dict"} /\ Len(Val(j)) = 0)

\* what a function call gives: a returned value or a raised exception
Ok(v) == [kind |-> "value", v |-> v, exc |-> ""]
Raise(e) == [kind |-> "raise", v |-> JNull, exc |-> e]

HasKey(items, k) == \E i \in 1..Len(items) : items[i][1] = k
Lookup(items, k) == items[CHOOSE i \in 1..Len(items) : items[i][1] = k][2]
\* dict.get(k): None for an absent key
DictGet(d, k) == IF HasKey(Val(d), k) THEN Lookup(Val(d), k) ELSE JNull
\* d[k] = v: an existing key keeps its place and takes the new value
DictSet(items, k, v) ==
    IF HasKey(items, k)
    THEN [i \in 1..Len(items) |-> IF items[i][1] = k THEN <<k, v>> ELSE items[i]]
    ELSE Append(items, <<k, v>>)

\* list[i] for an int i: a negative i counts from the end, and any i outside
\* -len..len-1 raises IndexError
InRange(list, i) == -Len(list) <= i /\ i < Len(list)
At(list, i) == IF i >= 0 THEN list[i + 1] ELSE list[Len(list) + i + 1]
\* data[x] as an outcome, x any JSON value
GetItem(list, x) ==
    IF Tag(x) # "int" THEN Raise("TypeError")
    ELSE IF ~InRange(list, Val(x)) THEN Raise("IndexError")
    ELSE Ok(At(list, Val(x)))

\* the first element of a sequence of outcomes that is a raise, if any
FirstRaise(outs) ==
    outs[CHOOSE i \in 1..Len(outs) :
            /\ outs[i].kind = "raise"
            /\ \A j \in 1..(i - 1) : outs[j].kind # "raise"]
AnyRaise(outs) == \E i \in 1..Len(outs) : outs[i].kind = "raise"
Values(outs) == [i \in 1..Len(outs) |-> outs[i].v]

(***************************************************************************)
(* Label tables of the controllers, as their items in source order         *)
(***************************************************************************)
\* json_to_label_map (historical_data_controller.py)
json_to_label_map ==
    << <<"t", "date">>,
       <<"o", "opening_price">>,
       <<"h", "high_price">>,
       <<"l", "low_price">>,
       <<"c", "closing_price">>,
       <<"v", "volume">>,
       <<"a", "adjusted_closing_price">>,
       <<"ch", "price_change">> >>

\* stock_quote_data_keys_to_labels (quote_data_controller.py)
stock_quote_data_keys_to_labels ==
    << <<"c", "price_change">>,
       <<"cdr", "change_direction">>,
       <<"cl", "closing_price">>,
       <<"cp", "percent_change">>,
       <<"days", "days_traded">>,
       <<"e", "is_extended_hours">>,
       <<"ec", "extended_hours_change">>,
       <<"ecp", "extended_hours_percent_change">>,
       <<"ep", "extended_hours_price">>,
       <<"epd", "extended_hours_previous_day_price">>,
       <<"es", "extended_hours_status">>,
       <<"ets", "extended_hours_timestamp">>,
       <<"eu", "extended_hours_update_time">>,
       <<"ex", "exchange">>,
       <<"exp", "extended_hours_price_expiration">>,
       <<"h", "high_price">>,
       <<"h52", "fifty_two_week_high">>,
       <<"l", "low_price">>,
       <<"l52", "fifty_two_week_low">>,
       <<"ms", "market_status">>,
       <<"o", "open_price">>,
       <<"p", "current_price">>,
       <<"pd", "previous_close_price">>,
       <<"symbol", "ticker_symbol">>,
       <<"td", "trading_date">>,
       <<"ts", "timestamp">>,
       <<"u", "last_update_time">>,
       <<"uid", "unique_id">>,
       <<"v", "volume">> >>

\* etf_quote_data_keys_to_labels (quote_data_controller.py)
etf_quote_data_keys_to_labels ==
    << <<"c", "price_change">>,
       <<"cdr", "change_direction">>,
       <<"cl", "closing_price">>,
       <<"cp", "percent_change">>,
       <<"days", "days_traded">>,
       <<"e", "is_extended_hours">>,
       <<"ec", "extended_hours_change">>,
       <<"ecp", "extended_hours_percent_change">>,
       <<"ep", "extended_hours_price">>,
       <<"epd", "extended_hours_previous_day_price">>,
       <<"es", "extended_hours_status">>,
       <<"ets", "extended_hours_timestamp">>,
       <<"eu", "extended_hours_update_time">>,
       <<"ex", "exchange">>,
       <<"exp", "extended_hours_price_expiration">>,
       <<"h", "high_price">>,
       <<"h52", "fifty_two_week_high">>,
       <<"l", "low_price">>,
       <<"l52", "fifty_two_week_low">>,
       <<"ms", "market_status">>,
       <<"o", "open_price">>,
       <<"p", "current_price">>,
       <<"pd", "previous_close_price">>,
       <<"symbol", "ticker_symbol">>,
       <<"td", "trading_date">>,
       <<"ts", "timestamp">>,
       <<"u", "last_update_time">>,
       <<"uid", "unique_id">>,
       <<"v", "volume">> >>

\* cash_flow_keys_to_labels (cash_flow_data_controller.py)
cash_flow_keys_to_labels ==
    << <<"datekey", "date_of_financial_data">>,
       <<"fiscalYear", "fiscal_year">>,
       <<"fiscalQuarter", "fiscal_quarter">>,
       <<"netIncomeCF", "net_income_operating_cash_flow_basis">>,
       <<"totalDepAmorCF", "total_depreciation_amortization">>,
       <<"sbcomp", "stock_based_compensation">>,
       <<"changeAR", "change_in_accounts_receivable">>,
       <<"changeInventory", "change_in_inventory">>,
       <<"changeAP", "change_in_accounts_payable">>,
       <<"changeUnearnedRev", "change_in_unearned_revenue">>,
       <<"changeOtherNetOperAssets", "change_in_other_net_operating_assets">>,
       <<"otheroperating", "other_operating_cash_flow_items">>,
       <<"ncfo", "net_cash_from_operating_activities">>,
       <<"ocfGrowth", "operating_cash_flow_growth">>,
       <<"capex", "capital_expenditures">>,
       <<"cashAcquisition", "cash_used_for_acquisitions">>,
       <<"salePurchaseIntangibles", "sale_purchase_of_intangibles">>,
       <<"investInSecurities", "investment_in_securities">>,
       <<"otherinvesting", "other_investing_cash_flow_items">>,
       <<"ncfi", "net_cash_from_investing_activities">>,
       <<"debtIssuedShortTerm", "short_term_debt_issued">>,
       <<"debtIssuedLongTerm", "long_term_debt_issued">>,
       <<"debtIssuedTotal", "total_debt_issued">>,
       <<"debtRepaidShortTerm", "short_term_debt_repaid">>,
       <<"debtRepaidLongTerm", "long_term_debt_repaid">>,
       <<"debtRepaidTotal", "total_debt_repaid">>,
       <<"netDebtIssued", "net_debt_issued">>,
       <<"commonIssued", "common_stock_issued">>,
       <<"commonRepurchased", "common_stock_repurchased">>,
       <<"commonDividendCF", "common_dividend_cash_flow">>,
       <<"otherfinancing", "other_financing_cash_flow_items">>,
       <<"ncff", "net_cash_from_financing_activities">>,
       <<"ncf", "net_cash_flow">>,
       <<"fcf", "free_cash_flow">>,
       <<"fcfGrowth", "free_cash_flow_growth">>,
       <<"fcfMargin", "free_cash_flow_margin">>,
       <<"fcfps", "free_cash_flow_per_share">>,
       <<"leveredFCF", "levered_free_cash_flow">>,
       <<"unleveredFCF", "unlevered_free_cash_flow">>,
       <<"cashInterestPaid", "cash_interest_paid">>,
       <<"cashTaxesPaid", "cash_taxes_paid">>,
       <<"changeNetWorkingCapital", "change_in_net_working_capital">> >>

\* income_data_keys_to_labels (income_data_controller.py)
income_data_keys_to_labels ==
    << <<"datekey", "date_of_financial_data">>,
       <<"fiscalYear", "fiscal_year">>,
       <<"fiscalQuarter", "fiscal_quarter">>,
       <<"revenue", "total_revenue">>,
       <<"revenueGrowth", "revenue_growth">>,
       <<"cor", "cost_of_revenue">>,
       <<"gp", "gross_profit">>,
       <<"sgna", "selling_general_and_administrative_expenses">>,
       <<"rnd", "research_and_development_expenses">>,
       <<"opex", "total_operating_expenses">>,
       <<"opinc", "operating_income">>,
       <<"interestExpense", "interest_expense">>,
       <<"interestIncome", "interest_income">>,
       <<"currencyGains", "currency_exchange_gains">>,
       <<"otherNonOperating", "other_non_operating_income">>,
       <<"ebtExcl", "earnings_before_tax_excluding_non_recurring_items">>,
       <<"gainInvestments", "gain_on_investments">>,
       <<"mergerRestructureCharges", "merger_and_restructuring_charges">>,
       <<"otherUnusualItems", "other_unusual_items">>,
       <<"pretax", "pretax_income">>,
       <<"taxexp", "tax_expense">>,
       <<"netinc", "net_income">>,
       <<"netinccmn", "net_income_common_stockholders">>,
       <<"netIncomeGrowth", "net_income_growth">>,
       <<"sharesBasic", "basic_shares_outstanding">>,
       <<"sharesDiluted", "diluted_shares_outstanding">>,
       <<"sharesYoY", "year_over_year_shares_growth">>,
       <<"epsBasic", "basic_earnings_per_share">>,
       <<"epsdil", "diluted_earnings_per_share">>,
       <<"epsGrowth", "earnings_per_share_growth">>,
       <<"fcf", "free_cash_flow">>,
       <<"fcfps", "free_cash_flow_per_share">>,
       <<"dps", "dividends_per_share">>,
       <<"dividendGrowth", "dividend_growth">>,
       <<"grossMargin", "gross_margin">>,
       <<"operatingMargin", "operating_margin">>,
       <<"profitMargin", "net_profit_margin">>,
       <<"fcfMargin", "free_cash_flow_margin">>,
       <<"taxrate", "effective_tax_rate">>,
       <<"ebitda", "earnings_before_interest_taxes_depreciation_amortization">>,
       <<"depAmorEbitda", "depreciation_and_amortization_in_ebitda">>,
       <<"ebitdaMargin", "ebitda_margin">>,
       <<"ebit", "earnings_before_interest_and_taxes">>,
       <<"ebitMargin", "ebit_margin">>,
       <<"legalSettlements", "legal_settlements">>,
       <<"payoutratio", "dividend_payout_ratio">> >>

\* financial_ratios_keys_to_labels (ratios_data_controller.py)
financial_ratios_keys_to_labels ==
    << <<"datekey", "date_of_financial_data">>,
       <<"fiscalYear", "fiscal_year">>,
       <<"fiscalQuarter", "fiscal_quarter">>,
       <<"marketcap", "market_cap">>,
       <<"marketCapGrowth", "market_cap_growth">>,
       <<"ev", "enterprise_value">>,
       <<"lastCloseRatios", "last_close_ratios">>,
       <<"pe", "price_to_earnings_ratio">>,
       <<"ps", "price_to_sales_ratio">>,
       <<"pb", "price_to_book_ratio">>,
       <<"pfcf", "price_to_free_cash_flow_ratio">>,
       <<"pocf", "price_to_operating_cash_flow_ratio">>,
       <<"evrevenue", "enterprise_value_to_revenue">>,
       <<"evebitda", "enterprise_value_to_ebitda">>,
       <<"evebit", "enterprise_value_to_ebit">>,
       <<"evfcf", "enterprise_value_to_free_cash_flow">>,
       <<"debtequity", "debt_to_equity_ratio">>,
       <<"debtebitda", "debt_to_ebitda_ratio">>,
       <<"debtfcf", "debt_to_free_cash_flow_ratio">>,
       <<"assetturnover", "asset_turnover_ratio">>,
       <<"inventoryTurnover", "inventory_turnover_ratio">>,
       <<"quickRatio", "quick_ratio">>,
       <<"currentratio", "current_ratio">>,
       <<"roe", "return_on_equity">>,
       <<"roa", "return_on_assets">>,
       <<"roic", "return_on_invested_capital">>,
       <<"earningsyield", "earnings_yield">>,
       <<"fcfyield", "free_cash_flow_yield">>,
       <<"dividendyield", "dividend_yield">>,
       <<"payoutratio", "payout_ratio">>,
       <<"buybackyield", "buyback_yield">>,
       <<"totalreturn", "total_return">> >>
\* a lookup that also takes a label back to its key
TableGetBothWays(table, key) ==
    IF HasKey(table, key) THEN Lookup(table, key)
    ELSE IF \E i \in 1..Len(table) : table[i][2] = key
    THEN table[CHOOSE i \in 1..Len(table) : table[i][2] = key][1]
    ELSE key

\* table.get(key, key)
TableGet(table, key) == IF HasKey(table, key) THEN Lookup(table, key) ELSE key

RelabelIdentity(table, items) == items

\* {table.get(key, key): value for key, value in entry.items()}: the items are
\* inserted in order, a label already present takes the later value
RECURSIVE Relabel(_, _)
Relabel(table, items) ==
    IF Len(items) = 0 THEN <<>>
    ELSE LET n == Len(items)
         IN  DictSet(Relabel(table, SubSeq(items, 1, n - 1)),
                     TableGet(table, items[n][1]), items[n][2])

(***************************************************************************)
(* Controllers: parameter validation, URL building and decoding            *)
(***************************************************************************)
FetchControllers == {"hdc", "qdc", "tsdc", "cdc", "idc", "ratios_dc", "revenue_dc"}
IndexedControllers == {"cdc", "idc", "ratios_dc", "revenue_dc"}

valid_asset_types == {"s", "e"}
valid_periods == {"Daily", "Weekly", "Monthly", "Quarterly", "Annual"}
valid_ranges == {"3M", "6M", "YTD", "1Y", "5Y", "10Y", "Max"}

\* the exceptions of the controllers, by the statement that raises them
InvalidArguments == "BaseException: Invalid arguments"
InvalidAssetType == "BaseException: Asset type parameter value is not valid."
InvalidRange == "BaseException: Range parameter value is not valid."
InvalidPeriod == "BaseException: Period parameter value is not valid."
NoStockTicker == "BaseException: No stock ticker provided"
NoTargetNode == "BaseException: Target node does not exist."
NoDataInNode == "BaseException: No data was found in the target node."
NoGlossaryIndex == "BaseException: No index for financialData was found."
NoGlossaryObject == "BaseException: No object existed at financialData index."
\* 'raise f"..."': raising a str is a TypeError (exceptions must derive from
\* BaseException)
RaiseStr == Raise("TypeError")
\* the call goes on to create_task(...) with this URL
Proceed(url) == [kind |-> "request", v |-> url, exc |-> ""]

ValidateHistoricalIgnoresRange(ticker, asset_type, range, period) ==
    IF ticker = "" \/ asset_type = "" \/ range = "" \/ period = ""
    THEN Raise(InvalidArguments)
    ELSE IF asset_type \notin valid_asset_types THEN Raise(InvalidAssetType)
    ELSE IF period \notin valid_periods THEN Raise(InvalidPeriod)
    ELSE Ok(JTrue)

validate_historical_parameters(ticker, asset_type, range, period) ==
    IF ticker = "" \/ asset_type = "" \/ range = "" \/ period = ""
    THEN Raise(InvalidArguments)
    ELSE IF asset_type \notin valid_asset_types THEN Raise(InvalidAssetType)
    ELSE IF range \notin valid_ranges THEN Raise(InvalidRange)
    ELSE IF period \notin valid_periods THEN Raise(InvalidPeriod)
    ELSE Ok(JTrue)

validate_ts_parameters(ticker, asset_type) ==
    IF ticker = "" \/ asset_type = "" THEN Raise(InvalidArguments)
    ELSE IF asset_type \notin valid_asset_types THEN Raise(InvalidAssetType)
    ELSE Ok(JTrue)

\* the URL templates with their placeholders replaced, as the list of the
\* values put in
Url(parts) == JList([i \in 1..Len(parts) |-> JStr(parts[i])])

\* HistoricalDataController.build_url_from_ticker
build_historical_url(ticker, asset_type, range, period) ==
    IF ticker = "" \/ asset_type = "" \/ range = "" \/ period = ""
    THEN RaiseStr
    ELSE Ok(Url(<<"history", asset_type, ticker, range, period>>))

\* QuoteDataController.build_url_from_ticker
build_quote_url(ticker, asset_type) ==
    IF ticker = "" \/ asset_type = "" THEN RaiseStr
    ELSE Ok(Url(<<"quotes", asset_type, ticker>>))

\* TimeSeriesDataController.build_url_from_ticker
build_ts_url(ticker, asset_type) ==
    IF ticker = "" \/ asset_type = "" THEN Raise(InvalidArguments)
    ELSE Ok(Url(<<"chart", asset_type, ticker>>))

build_income_url(ticker, period) == Url(<<"financials", ticker, period>>)
build_cash_flow_url(ticker) == Url(<<"cash-flow-statement", ticker>>)
build_ratios_url(ticker) == Url(<<"ratios", ticker>>)
build_revenue_url(ticker) == Url(<<"revenue", ticker>>)

\* a controller method from its entry to 'data = create_task(...)': it raises,
\* returns a value, or goes on to the request
BeforeRequest(c) ==
    CASE c.ctl = "hdc" ->
           LET ok == validate_historical_parameters(c.ticker, c.asset_type,
                                                    c.range, c.period)
               url == build_historical_url(c.ticker, c.asset_type, c.range, c.period)
           IN  IF ok.kind = "raise" THEN ok
               ELSE IF url.kind = "raise" THEN url
               ELSE Proceed(url.v)
      [] c.ctl = "qdc" ->
           LET url == build_quote_url(c.ticker, c.asset_type)
           IN  IF c.asset_type \notin valid_asset_types THEN Raise(InvalidAssetType)
               ELSE IF url.kind = "raise" THEN url
               ELSE Proceed(url.v)
      [] c.ctl = "tsdc" ->
           LET ok == validate_ts_parameters(c.ticker, c.asset_type)
               url == build_ts_url(c.ticker, c.asset_type)
           IN  IF ok.kind = "raise" THEN ok
               ELSE IF url.kind = "raise" THEN url
               ELSE Proceed(url.v)
      [] c.ctl = "idc" ->
           IF c.ticker = "" THEN Ok(JNull)
           ELSE Proceed(build_income_url(c.ticker, c.period))
      [] c.ctl = "ratios_dc" ->
           IF c.ticker = "" THEN Ok(JNull)
           ELSE Proceed(build_ratios_url(c.ticker))
      [] c.ctl = "cdc" ->
           IF c.ticker = "" THEN Raise(NoStockTicker)
           ELSE Proceed(build_cash_flow_url(c.ticker))
      [] c.ctl = "revenue_dc" ->
           IF c.ticker = "" THEN Raise(NoStockTicker)
           ELSE Proceed(build_revenue_url(c.ticker))

\* the JSON envelope {'data_type': ..., 'data': data}
FetchEnvelope(ctl, data) ==
    JDict(<< <<"data_type", JStr(DataType(ctl))>>, <<"data", data>> >>)

\* the label table a controller's convert_keys_to_labels uses
LabelTable(ctl, asset_type) ==
    CASE ctl = "hdc" -> json_to_label_map
      [] ctl = "qdc" /\ asset_type = "e" -> etf_quote_data_keys_to_labels
      [] ctl = "qdc" /\ asset_type # "e" -> stock_quote_data_keys_to_labels
      [] ctl = "cdc" -> cash_flow_keys_to_labels
      [] ctl = "idc" -> income_data_keys_to_labels
      [] ctl = "ratios_dc" -> financial_ratios_keys_to_labels

\* convert_keys_to_labels(entry): entry.items() needs a dict
convert_keys_to_labels(ctl, asset_type, entry) ==
    IF Tag(entry) # "dict" THEN Raise("AttributeError")
    ELSE Ok(JDict(Relabel(LabelTable(ctl, asset_type), Val(entry))))

\* get_historical_data_from_url after the response: response_json.get('data'),
\* then its own 'data'
get_historical_data_from_url(response_json) ==
    IF Tag(response_json) # "dict" THEN Raise("AttributeError")
    ELSE LET json_data == DictGet(response_json, "data")
         IN  IF Falsy(json_data) THEN Ok(json_data)
             ELSE IF Tag(json_data) # "dict" THEN Raise("AttributeError")
             ELSE Ok(DictGet(json_data, "data"))

\* get_quote_data_from_url and get_ts_data_from_url after the response
get_data_from_url(response_json) ==
    IF Tag(response_json) # "dict" THEN Raise("AttributeError")
    ELSE Ok(DictGet(response_json, "data"))

Collect(outs) == IF AnyRaise(outs) THEN FirstRaise(outs) ELSE Ok(JList(Values(outs)))

\* round(x / 1000.0): to the nearest integer, a tie to the even one
PyRoundMs(ms) ==
    LET q == ms \div 1000
        r == ms % 1000
    IN  IF r < 500 THEN q
        ELSE IF r > 500 THEN q + 1
        ELSE IF q % 2 = 0 THEN q ELSE q + 1

\* datetime.fromtimestamp(s).strftime('%Y-%m-%d') in a process whose local
\* time is UTC: the calendar day, counted from 1970-01-01
JDate(days) == <<"str %Y-%m-%d", days>>
DateOf(timestamp_s) == JDate(timestamp_s \div 86400)

\* a conversion that takes the closing price from the timestamp
ConvertPriceFromTimestamp(entry) ==
    IF Tag(entry) # "list" \/ Len(Val(entry)) # 2 THEN Raise("ValueError")
    ELSE IF Tag(Val(entry)[1]) \notin {"int", "float"} THEN Raise("TypeError")
    ELSE Ok(JDict(<< <<"date", DateOf(PyRoundMs(Val(Val(entry)[1])))>>,
                     <<"closing_price", JFloat(Val(Val(entry)[1]))>> >>))

\* convert_time_series_entry(entry)
convert_time_series_entry(entry) ==
    IF Tag(entry) \notin {"list", "dict"} THEN Raise("TypeError")
    ELSE IF Len(Val(entry)) # 2 THEN Raise("ValueError")
    ELSE IF Tag(entry) = "dict" THEN Raise("TypeError")
    ELSE LET timestamp_ms == Val(entry)[1]
             closing_price == Val(entry)[2]
         IN  IF Tag(timestamp_ms) \notin {"int", "float"} THEN Raise("TypeError")
             ELSE IF Tag(closing_price) \notin {"int", "float"} THEN Raise("TypeError")
             ELSE Ok(JDict(<< <<"date", DateOf(PyRoundMs(Val(timestamp_ms)))>>,
                              <<"closing_price", JFloat(Val(closing_price))>> >>))

\* the 'data' of the envelope returned from inside 'if not await data:'
EmptyData(task) == TaskHandle

\* the flat controllers from 'if not await data:' to their return; task is
\* what the created task gave
FlatReturn(c, task) ==
    IF task.kind = "raise" THEN task
    ELSE IF Falsy(task.v) THEN Ok(FetchEnvelope(c.ctl, EmptyData(task)))
    ELSE IF c.ctl = "qdc"
    THEN LET formatted == convert_keys_to_labels(c.ctl, c.asset_type, task.v)
         IN  IF formatted.kind = "raise" THEN formatted
             ELSE Ok(FetchEnvelope(c.ctl, formatted.v))
    ELSE IF Tag(task.v) = "dict" THEN Raise("AttributeError")
    ELSE IF Tag(task.v) # "list" THEN Raise("TypeError")
    ELSE LET convert(entry) ==
                 IF c.ctl = "hdc"
                 THEN convert_keys_to_labels(c.ctl, c.asset_type, entry)
                 ELSE convert_time_series_entry(entry)
             formatted == Collect([i \in 1..Len(Val(task.v)) |-> convert(Val(task.v)[i])])
         IN  IF formatted.kind = "raise" THEN formatted
             ELSE Ok(FetchEnvelope(c.ctl, formatted.v))

\* the field of data[0] that holds the glossary index
GlossaryField(ctl) == IF ctl = "revenue_dc" THEN "data" ELSE "financialData"

\* get_financial_data_indices(data): {key: data[target_index] for key,
\* target_index in financial_glossary_object.items()}
get_financial_data_indices(ctl, data) ==
    LET root == At(Val(data), 0)
    IN  IF Tag(root) # "dict" THEN Raise("AttributeError")
        ELSE LET financial_glossary_index == DictGet(root, GlossaryField(ctl))
             IN  IF Tag(financial_glossary_index) = "NoneType"
                 THEN Raise(NoGlossaryIndex)
                 ELSE LET glossary == GetItem(Val(data), financial_glossary_index)
                      IN  IF glossary.kind = "raise" THEN glossary
                          ELSE IF Falsy(glossary.v) THEN Raise(NoGlossaryObject)
                          ELSE IF Tag(glossary.v) # "dict" THEN Raise("AttributeError")
                          ELSE LET items == Val(glossary.v)
                                   outs == [i \in 1..Len(items) |->
                                               GetItem(Val(data), items[i][2])]
                               IN  IF AnyRaise(outs) THEN FirstRaise(outs)
                                   ELSE Ok(JDict([i \in 1..Len(items) |->
                                                     <<items[i][1], outs[i].v>>]))

ResolveDirect(data, indices) == Ok(indices)

\* [data[target_index] for target_index in indices]: iterating a dict gives
\* its keys, which are no list indices
Resolve(data, indices) ==
    IF Tag(indices) = "list"
    THEN LET get(target_index) == GetItem(Val(data), target_index)
         IN  Collect([i \in 1..Len(Val(indices)) |-> get(Val(indices)[i])])
    ELSE IF Tag(indices) = "dict" /\ Len(Val(indices)) = 0 THEN Ok(JList(<<>>))
    ELSE Raise("TypeError")

\* a revenue record that keeps the items carrying 'limited'
RevenueRecordKeepsLimited(data, item) ==
    IF Tag(item) # "dict" THEN Raise("AttributeError")
    ELSE LET fields == Val(item)
             outs == [j \in 1..Len(fields) |-> GetItem(Val(data), fields[j][2])]
         IN  IF AnyRaise(outs) THEN FirstRaise(outs)
             ELSE Ok(JDict([j \in 1..Len(fields) |-> <<fields[j][1], outs[j].v>>]))

\* the record of one item of the revenue decode, where kind "skip" stands for
\* an item left out by "if 'limited' not in item.keys()"
RevenueRecord(data, item) ==
    IF Tag(item) # "dict" THEN Raise("AttributeError")
    ELSE IF HasKey(Val(item), "limited") THEN [kind |-> "skip", v |-> JNull, exc |-> ""]
    ELSE LET fields == Val(item)
             outs == [j \in 1..Len(fields) |-> GetItem(Val(data), fields[j][2])]
         IN  IF AnyRaise(outs) THEN FirstRaise(outs)
             ELSE Ok(JDict([j \in 1..Len(fields) |-> <<fields[j][1], outs[j].v>>]))

\* the list the revenue decode builds for one field
RevenueRecords(data, indices) ==
    LET items == Resolve(data, indices)
    IN  IF items.kind = "raise" THEN items
        ELSE LET record(item) == RevenueRecord(data, item)
                 outs == [i \in 1..Len(Val(items.v)) |-> record(Val(items.v)[i])]
                 kept(o) == o.kind = "value"
             IN  IF AnyRaise(outs) THEN FirstRaise(outs)
                 ELSE Ok(JList(Values(SelectSeq(outs, kept))))

\* what extract_financial_data returns for the assembled mapping: the list of
\* the one relabelled mapping, and for revenue the mapping itself
Wrap(ctl, items) ==
    IF ctl = "revenue_dc" THEN JDict(items)
    ELSE JList(<< JDict(Relabel(LabelTable(ctl, ""), items)) >>)

MinNodesTwo == 3 - 1

\* 'len(nodes) < 3', before 'target_node = nodes[2]'
MinNodes == 3

\* the local financial_data of extract_financial_data(response_json), or the
\* exception raised before it is assembled
financial_data(ctl, response_json) ==
    IF Tag(response_json) # "dict" THEN Raise("AttributeError")
    ELSE LET nodes == DictGet(response_json, "nodes")
         IN  IF Falsy(nodes) THEN Raise(NoTargetNode)
             ELSE IF Tag(nodes) # "list" THEN Raise("TypeError")
             ELSE IF Len(Val(nodes)) < MinNodes THEN Raise(NoTargetNode)
             ELSE IF ~InRange(Val(nodes), 2) THEN Raise("IndexError")
             ELSE LET target_node == At(Val(nodes), 2)
                  IN  IF Tag(target_node) # "dict" THEN Raise("AttributeError")
                      ELSE LET data == DictGet(target_node, "data")
                           IN  IF Falsy(data) THEN Raise(NoDataInNode)
                               ELSE IF Tag(data) # "list" THEN Raise("KeyError")
                               ELSE LET indices == get_financial_data_indices(ctl, data)
                                    IN  IF indices.kind = "raise" THEN indices
                                        ELSE LET fields == Val(indices.v)
                                                 outs == [i \in 1..Len(fields) |->
                                                            IF ctl = "revenue_dc"
                                                            THEN RevenueRecords(data, fields[i][2])
                                                            ELSE Resolve(data, fields[i][2])]
                                             IN  IF AnyRaise(outs) THEN FirstRaise(outs)
                                                 ELSE Ok(JDict([i \in 1..Len(fields) |->
                                                            <<fields[i][1], outs[i].v>>]))

\* extract_financial_data(response_json)
extract_financial_data(ctl, response_json) ==
    LET assembled == financial_data(ctl, response_json)
    IN  IF assembled.kind = "raise" THEN assembled
        ELSE Ok(Wrap(ctl, Val(assembled.v)))

\* fetch_cash_flow_data, fetch_income_data, fetch_ratios_data and
\* fetch_revenue_data after the response
fetch_data(ctl, response_json) ==
    IF Falsy(response_json) THEN RaiseStr
    ELSE extract_financial_data(ctl, response_json)

\* what the task made by create_task gives for the JSON body of a 200 answer
TaskResult(c, response_json) ==
    CASE c.ctl = "hdc" -> get_historical_data_from_url(response_json)
      [] c.ctl \in {"qdc", "tsdc"} -> get_data_from_url(response_json)
      [] OTHER -> fetch_data(c.ctl, response_json)

\* the controller method after create_task: 'if not await data' and the
\* formatting for the flat controllers, 'if data: return {..., await data}'
\* for the indexed ones (a Task object is true)
AfterTask(c, task) ==
    IF c.ctl \in IndexedControllers
    THEN IF task.kind = "raise" THEN task ELSE Ok(FetchEnvelope(c.ctl, task.v))
    ELSE FlatReturn(c, task)

(***************************************************************************)
(* Inputs of a single controller call: its arguments, and the JSON bodies  *)
(* the upstream may answer with                                            *)
(***************************************************************************)
\* a parameter the called method does not have
NoArg == "-"
Tickers == {"", Ticker}
AssetTypes == valid_asset_types \cup {"", "x"}
Ranges == valid_ranges \cup {"", "2Y"}
Periods == valid_periods \cup {"", "Hourly"}
\* 'quarterly' is the default of the income route
IncomePeriods == {"quarterly", "Hourly", ""}

CallOf(ctl, ticker, asset_type, range, period) ==
    [ctl |-> ctl, ticker |-> ticker, asset_type |-> asset_type,
     range |-> range, period |-> period]

Calls ==
    {CallOf("hdc", k, a, r, p) : k \in Tickers, a \in AssetTypes, r \in Ranges, p \in Periods}
    \cup {CallOf(ctl, k, a, NoArg, NoArg) : ctl \in {"qdc", "tsdc"}, k \in Tickers, a \in AssetTypes}
    \cup {CallOf("idc", k, NoArg, NoArg, p) : k \in Tickers, p \in IncomePeriods}
    \cup {CallOf(ctl, k, NoArg, NoArg, NoArg) : ctl \in {"cdc", "ratios_dc", "revenue_dc"}, k \in Tickers}

\* sequences of length at most n over S
SeqsUpTo(S, n) == UNION {[1..k -> S] : k \in 0..n}

\* a record with the given keys in the given order; the value under the i-th
\* key is the number i
RecordOf(keys) == JDict([i \in 1..Len(keys) |-> <<keys[i], JNum(i)>>])

\* names to try a label table with: every key, every label, and a name that
\* is neither
UnknownKey == "zz"
AllNames(table) ==
    {table[i][1] : i \in 1..Len(table)} \cup {table[i][2] : i \in 1..Len(table)}
        \cup {UnknownKey}

\* key lists with more than one key: a table key next to an unknown key, to
\* another table key, and to its own label in both orders
KeyLists(table) ==
    LET k == table[1][1]
        l == table[1][2]
    IN  {<<>>, <<k, UnknownKey>>, <<UnknownKey, k>>, <<k, table[2][1]>>, <<k, l>>, <<l, k>>}

Records(table) ==
    {RecordOf(<<n>>) : n \in AllNames(table)} \cup {RecordOf(ks) : ks \in KeyLists(table)}

\* a JSON body with the given value under 'data'
WithData(d) == JDict(<< <<"data", d>> >>)

\* bodies whose payload is empty: no 'data', null, an empty dict, an empty list
EmptyPayloads == {JDict(<<>>), WithData(JNull), WithData(JDict(<<>>)), WithData(JList(<<>>))}

\* historical bodies: empty ones, and lists of entries of one record or of two
\* records of one key each
HistoricalBodies ==
    LET one == {<<r>> : r \in Records(json_to_label_map)}
        few == {RecordOf(<<n>>) : n \in {"t", "date", UnknownKey}}
        lists == one \cup {<<r1, r2>> : r1 \in few, r2 \in few}
    IN  EmptyPayloads
        \cup {WithData(WithData(JNull)), WithData(WithData(JList(<<>>)))}
        \cup {WithData(WithData(JList(es))) : es \in lists}

QuoteBodies(asset_type) ==
    EmptyPayloads \cup {WithData(r) : r \in Records(LabelTable("qdc", asset_type))}

\* time-series entries: [timestamp_ms, closing_price] pairs around a change of
\* day and around a tie of the rounding, and entries that are no pairs
MaxEntries == 2
TsEntries ==
    {JList(<<JNum(ms), JNum(p)>>) : ms \in {0, 1500, 86399499, 86399500, 86400500}, p \in {7}}
    \cup {JList(<<JNum(1500), JFloat(9)>>), JList(<<JNum(0)>>),
          JList(<<JNum(0), JNum(7), JNum(8)>>), JList(<<JNull, JNum(7)>>)}

TsBodies ==
    EmptyPayloads \cup {WithData(JList(es)) : es \in SeqsUpTo(TsEntries, MaxEntries) \ {<<>>}}

\* An indexed-reference body: nodes[2]['data'] is the pool
\*   [0] the root, [1] the glossary, [2] an index list X, [3] an index list Y,
\*   [4] and [5] two records, [6] and [7] two numbers
\* gi is the glossary index of the root (None: the root has no such field), the
\* first glossary field points to a and every later one to Y, and the first
\* record's 'value' points to r; the second record carries 'limited'
MaxIndexList == 2
Pool(ctl, gi, keys, a, X, r) ==
    << (IF gi = JNull THEN JDict(<< <<"other", JNum(6)>> >>)
        ELSE JDict(<< <<"other", JNum(6)>>, <<GlossaryField(ctl), gi>> >>)),
       JDict([i \in 1..Len(keys) |-> <<keys[i], IF i = 1 THEN JNum(a) ELSE JNum(3)>>]),
       JList([i \in 1..Len(X) |-> JNum(X[i])]),
       JList(<<JNum(5), JNum(4)>>),
       JDict(<< <<"value", JNum(r)>>, <<"date", JNum(7)>> >>),
       JDict(<< <<"limited", JNum(6)>>, <<"value", JNum(6)>> >>),
       JNum(100),
       JNum(200) >>

Node(data) == JDict(<< <<"data", data>> >>)
NoNode == JDict(<<>>)
WithNodes(nodes) == JDict(<< <<"nodes", JList(nodes)>> >>)
IndexedBody(pool) == WithNodes(<<NoNode, NoNode, Node(JList(pool))>>)

\* indices into the pool of 8: below -8 and above 7 are out of bounds, -7 and
\* -6 are positions 1 and 2 counted from the end
Pointers == {-9, -7, -6, 1, 2, 3, 6, 8}
ListPointers == {-9, -1, 4, 5, 8}
RecordPointers == {-9, -1, 6}

\* bodies whose node list or target node is not as expected
MalformedBodies ==
    {JNull, JDict(<<>>), JDict(<< <<"nodes", JNull>> >>), WithNodes(<<>>),
     JDict(<< <<"other", JNum(1)>> >>),
     WithNodes(<<NoNode, Node(JList(<<JNum(1)>>))>>),
     WithNodes(<<NoNode, NoNode, NoNode>>),
     WithNodes(<<NoNode, NoNode, Node(JNull)>>),
     WithNodes(<<NoNode, NoNode, Node(JList(<<>>))>>),
     WithNodes(<<NoNode, NoNode, Node(JList(<<JNum(1), JNum(2)>>))>>)}

\* the field names the glossaries are made of: revenue has no label table
FieldTable(ctl) == IF ctl = "revenue_dc" THEN cash_flow_keys_to_labels ELSE LabelTable(ctl, "")
GlossaryIndices == {JNull} \cup {JNum(p) : p \in Pointers}
IndexLists == SeqsUpTo(ListPointers, MaxIndexList)
RecordPointersOf(ctl) == IF ctl = "revenue_dc" THEN RecordPointers ELSE {6}

\* the JSON bodies the upstream may give to a call, the indexed-reference
\* bodies with a pool apart
Bodies(c) ==
    CASE c.ctl = "hdc" -> HistoricalBodies
      [] c.ctl = "qdc" -> QuoteBodies(c.asset_type)
      [] c.ctl = "tsdc" -> TsBodies
      [] OTHER -> MalformedBodies
                  \cup {IndexedBody(Pool(c.ctl, JNum(1), <<n>>, 2, <<5, 4>>, 6)) :
                           n \in AllNames(FieldTable(c.ctl))}

NoCall == CallOf("", "", "", "", "")
NoAnswer == [status |-> 0, json |-> JNull]
NoResult == [kind |-> "none", v |-> JNull, exc |-> ""]

VARIABLES
    cls_session,    \* AsyncSessionManager._session: None or a session id
    cls_semaphore,  \* AsyncSessionManager._semaphore: its free slots
    open,           \* the sessions that exist and are not closed
    pc,             \* task -> where it stands in request_with_limit
    retries,        \* task -> the retries argument of its innermost call
    held,           \* task -> admission slots it holds
    session,        \* task -> the local 'session' of its innermost call
    nreq,           \* task -> HTTP requests it has issued
    nsleep,         \* task -> back-off delays it has taken
    backoff,        \* task -> the Retry-After header its outer call read and its
                    \* local retry_after, in seconds
    resps,          \* task -> the responses it received, <<status, body>>
    outcome,        \* task -> how its fetch ended
    throttled,      \* 429 answers given so far
    errors,         \* answers other than 200 and 429 given so far
    cpc,            \* compose -> "absent", "idle", "gathering", "returned", "failed"
    gathered,       \* compose -> the exception gather's future holds, or NoExc
    final,          \* compose -> what the compose call gave its caller
    sdpc,           \* shutdown hook: "up", "closing1", "closed1", "closing2", "closed2"
    sdBefore,       \* manager state when the current close_session call began
    sdFirst,        \* cls._session when the first close_session call began
    sdCloses,       \* close() calls the shutdown hook made on a session
    sdErr,          \* the shutdown hook raised
    fcall,          \* the controller method called and its arguments
    fpc,            \* where that call stands: "off", "called", "inflight", ...
    fretries,       \* the retries argument of its request_with_limit call
    acquired,       \* admission slots the call has acquired so far
    transport,      \* HTTP requests the call has handed to the transport
    upstream,       \* the last answer of the upstream: status and JSON body
    fresult         \* what the controller method gave its caller

taskVars == <<pc, retries, held, session, nreq, nsleep, resps, outcome>>
mgrVars == <<cls_session, cls_semaphore, open>>
composeVars == <<cpc, gathered, final>>
envVars == <<throttled, errors>>
sdVars == <<sdpc, sdBefore, sdFirst, sdCloses, sdErr>>
fetchVars == <<fcall, fpc, fretries, acquired, transport, upstream, fresult>>
vars == <<cls_session, cls_semaphore, open, pc, retries, held, session, nreq, nsleep, backoff,
          resps, outcome, throttled, errors, cpc, gathered, final, sdpc, sdBefore, sdFirst,
          sdCloses, sdErr, fcall, fpc, fretries, acquired, transport, upstream, fresult>>

(***************************************************************************)
(* AsyncSessionManager                                                     *)
(***************************************************************************)
SemaphoreValueThree == 2 + 1

\* _semaphore = asyncio.Semaphore(2)
SemaphoreValue == 2

NeedsNewSessionWhenNone(s, op) == s = None

\* get_session: 'if cls._session is None or cls._session.closed'
NeedsNewSession(s, op) == s = None \/ s \notin op

\* the identity of the ClientSession() that get_session constructs
FreshSession ==
    CHOOSE s \in SessionIds :
        /\ s \notin open \cup {cls_session} \cup {session[t] : t \in Tasks} \cup {sdFirst}
        /\ \A r \in SessionIds :
              (r \notin open \cup {cls_session} \cup {session[t] : t \in Tasks} \cup {sdFirst})
                 => s <= r

\* get_session: the session it returns
GetSession == IF NeedsNewSession(cls_session, open) THEN FreshSession ELSE cls_session

CloseNeededAlways(s) == TRUE

CloseNeededNever(s) == FALSE

\* close_session: 'if cls._session:'
CloseNeeded(s) == s # None

\* 'if response.status == 200'
IsSuccess(status) == status = 200

ShouldRetryAgain(status, r) == status = 429 /\ r < 2

ShouldRetryAnyError(status, r) == status # 200 /\ r < 1

\* 'if response.status == 429 and retries < 1'
ShouldRetry(status, r) == status = 429 /\ r < 1

DefaultRetryAfterSix == 5 + 1

\* the default of response.headers.get("Retry-After", 5)
DefaultRetryAfter == 5

\* int(...) of a string of decimal digits
RECURSIVE IntOf(_)
IntOf(digits) ==
    IF Len(digits) = 0 THEN 0
    ELSE 10 * IntOf(SubSeq(digits, 1, Len(digits) - 1)) + digits[Len(digits)]

\* retry_after = int(response.headers.get("Retry-After", 5))
RetryAfter(header) == IF header = NoHeader THEN DefaultRetryAfter ELSE IntOf(header)

\* raise BaseException({'message': 'Request error.', 'status': response.status, ...})
RequestError(t, status) == [task |-> t, status |-> status]

RetryReturnDropped(inner) == NoBody

\* 'return await cls.request_with_limit(url, retries)': the outer call returns
\* what the recursive call returned
RetryReturn(inner) == inner

(***************************************************************************)
(* Orchestrators                                                           *)
(***************************************************************************)
\* {task_data['data_type']: task_data['data'] for task_data in tasks}: a dict
\* built in list order, a later envelope replacing an earlier one of the same key
RECURSIVE Merge(_)
Merge(envs) ==
    IF Len(envs) = 0 THEN EmptyDict
    ELSE LET prev == Merge(SubSeq(envs, 1, Len(envs) - 1))
             e == envs[Len(envs)]
         IN  [k \in (DOMAIN prev) \cup {e.data_type} |->
                 IF k = e.data_type THEN e.data ELSE prev[k]]

\* results handed to the fetches in the reverse of the fan-out order
GatheredReversed(c) ==
    [i \in 1..Len(Fanout(c)) |->
        Envelope(Fanout(c)[i], outcome[<<c, Len(Fanout(c)) + 1 - i>>].body)]

\* the list asyncio.gather returns: the fetches' envelopes in fan-out order
Gathered(c) ==
    [i \in 1..Len(Fanout(c)) |-> Envelope(Fanout(c)[i], outcome[<<c, i>>].body)]

Owner(t) == t[1]

GatherReturnsWhenAllDone(c) == \A t \in ComposeTasks(c) : pc[t] = "done"

GatherReturnsOnFirst(c) == \E t \in ComposeTasks(c) : outcome[t].kind = "ok"

\* 'await asyncio.gather(*[...])' returns the list of results once every
\* awaitable has completed and none has raised
GatherReturns(c) ==
    /\ gathered[c] = NoExc
    /\ \A t \in ComposeTasks(c) : outcome[t].kind = "ok"

(***************************************************************************)
(* Initial state: the process after import, before any call.  One run has  *)
(* either a stock compose call, or an ETF compose call next to MaxDirect   *)
(* route calls.                                                            *)
(***************************************************************************)
Init ==
    /\ cls_session = None
    /\ cls_semaphore = SemaphoreValue
    /\ open = {}
    /\ \E sc \in Composes :
          /\ cpc = [c \in Composes |-> IF c = sc THEN "idle" ELSE "absent"]
          /\ pc = [t \in Tasks |->
                     IF t \in ComposeTasks(sc) \/ (sc = "etf" /\ t \in DirectTasks)
                     THEN "idle" ELSE "absent"]
    /\ retries = [t \in Tasks |-> 0]
    /\ held = [t \in Tasks |-> 0]
    /\ session = [t \in Tasks |-> None]
    /\ nreq = [t \in Tasks |-> 0]
    /\ nsleep = [t \in Tasks |-> 0]
    /\ backoff = [t \in Tasks |-> NoBackoff]
    /\ resps = [t \in Tasks |-> <<>>]
    /\ outcome = [t \in Tasks |-> NoOutcome]
    /\ throttled = 0
    /\ errors = 0
    /\ gathered = [c \in Composes |-> NoExc]
    /\ final = [c \in Composes |-> NoFinal]
    /\ sdpc = "up"
    /\ sdBefore = <<None, {}>>
    /\ sdFirst = None
    /\ sdCloses = 0
    /\ sdErr = FALSE
    /\ fcall = NoCall
    /\ fpc = "off"
    /\ fretries = 0
    /\ acquired = 0
    /\ transport = 0
    /\ upstream = NoAnswer
    /\ fresult = NoResult

\* what the upstream may still answer in this run
MayAnswer(status) ==
    IF cpc["stock"] # "absent"
    THEN status # 200 => throttled + errors < StockMaxNot200
    ELSE /\ status = 429 => throttled < MaxThrottled
         /\ status \notin {200, 429} => errors < MaxErrors

(***************************************************************************)
(* Steps of a task inside request_with_limit                               *)
(***************************************************************************)
\* 'async with cls._semaphore', 'session = await cls.get_session()' and the
\* start of 'session.get(url)': no await in between suspends
Issue(t) ==
    LET s == GetSession IN
    /\ cls_semaphore' = cls_semaphore - 1
    /\ held' = [held EXCEPT ![t] = @ + 1]
    /\ cls_session' = s
    /\ open' = open \cup {s}
    /\ session' = [session EXCEPT ![t] = s]
    /\ nreq' = [nreq EXCEPT ![t] = @ + 1]
    /\ pc' = [pc EXCEPT ![t] = "inflight"]

\* a call that gives back one slot however many it holds
FinishReleasesOne(t, o) ==
    /\ pc' = [pc EXCEPT ![t] = "done"]
    /\ cls_semaphore' = cls_semaphore + 1
    /\ held' = [held EXCEPT ![t] = 0]
    /\ session' = [session EXCEPT ![t] = None]
    /\ outcome' = [outcome EXCEPT ![t] = o]
    /\ gathered' = IF /\ o.kind = "err"
                      /\ Owner(t) \in Composes
                      /\ gathered[Owner(t)] = NoExc
                   THEN [gathered EXCEPT ![Owner(t)] = o.exc]
                   ELSE gathered

\* the call leaves every 'async with cls._semaphore' it is inside of, and the
\* fetch that made it completes; gather's done-callback records a first failure
Finish(t, o) ==
    /\ pc' = [pc EXCEPT ![t] = "done"]
    /\ cls_semaphore' = cls_semaphore + held[t]
    /\ held' = [held EXCEPT ![t] = 0]
    /\ session' = [session EXCEPT ![t] = None]
    /\ outcome' = [outcome EXCEPT ![t] = o]
    /\ gathered' = IF /\ o.kind = "err"
                      /\ Owner(t) \in Composes
                      /\ gathered[Owner(t)] = NoExc
                   THEN [gathered EXCEPT ![Owner(t)] = o.exc]
                   ELSE gathered

\* a route handler awaits a fetch (main.py)
Call(t) ==
    /\ t \in DirectTasks
    /\ pc[t] = "idle"
    /\ sdpc = "up"
    /\ pc' = [pc EXCEPT ![t] = "waiting"]
    /\ UNCHANGED <<mgrVars, retries, held, session, nreq, nsleep, resps, outcome,
                   envVars, composeVars, sdVars>>
    /\ UNCHANGED <<fetchVars, backoff>>

\* compose_stock_data / compose_etf_data up to 'await asyncio.gather(...)'
ComposeStart(c) ==
    /\ cpc[c] = "idle"
    /\ sdpc = "up"
    /\ cpc' = [cpc EXCEPT ![c] = "gathering"]
    /\ pc' = [t \in Tasks |-> IF t \in ComposeTasks(c) THEN "waiting" ELSE pc[t]]
    /\ UNCHANGED <<mgrVars, retries, held, session, nreq, nsleep, resps, outcome,
                   throttled, errors, gathered, final, sdVars>>
    /\ UNCHANGED <<fetchVars, backoff>>

\* first entry of request_with_limit, once a slot is free
Acquire(t) ==
    /\ pc[t] = "waiting"
    /\ cls_semaphore > 0
    /\ Issue(t)
    /\ UNCHANGED <<retries, nsleep, resps, outcome, envVars, composeVars, sdVars>>
    /\ UNCHANGED <<fetchVars, backoff>>

\* the response arrives: lines 28-50
Respond(t) ==
    /\ pc[t] = "inflight"
    /\ \E status \in Statuses, header \in RetryAfterHeaders :
          LET b == <<t, nreq[t]>> IN
          /\ MayAnswer(status)
          \* the header is read on the first 429 alone
          /\ ~ShouldRetry(status, retries[t]) => header = NoHeader
          /\ backoff' = IF ShouldRetry(status, retries[t])
                        THEN [backoff EXCEPT ![t] =
                                 [header |-> header, retry_after |-> RetryAfter(header)]]
                        ELSE [backoff EXCEPT ![t] = NoBackoff]
          /\ throttled' = IF status = 429 THEN throttled + 1 ELSE throttled
          /\ errors' = IF status \notin {200, 429} THEN errors + 1 ELSE errors
          /\ resps' = [resps EXCEPT ![t] =
                          Append(@, <<status, IF status = 200 THEN b ELSE NoBody>>)]
          /\ IF IsSuccess(status)
             THEN \* return await response.json()
                  /\ Finish(t, [kind |-> "ok",
                                body |-> IF retries[t] > 0 THEN RetryReturn(b) ELSE b,
                                exc |-> NoExc])
                  /\ UNCHANGED <<cls_session, open, retries, nreq, nsleep>>
             ELSE IF ShouldRetry(status, retries[t])
             THEN \* retries = retries + 1; await cls.close_session()
                  IF CloseNeeded(cls_session)
                  THEN IF cls_session = None
                       THEN \* None has no close(): AttributeError
                            /\ Finish(t, [kind |-> "err", body |-> NoBody,
                                          exc |-> [task |-> t, status |-> 0]])
                            /\ UNCHANGED <<cls_session, open, nreq, nsleep>>
                            /\ retries' = [retries EXCEPT ![t] = @ + 1]
                       ELSE IF cls_session \in open
                       THEN \* 'await cls._session.close()' suspends with the
                            \* session already marked closed
                            /\ open' = open \ {cls_session}
                            /\ pc' = [pc EXCEPT ![t] = "closing"]
                            /\ retries' = [retries EXCEPT ![t] = @ + 1]
                            /\ UNCHANGED <<cls_session, cls_semaphore, held, session,
                                           nreq, nsleep, outcome, gathered>>
                       ELSE \* close() of a closed session returns at once
                            /\ cls_session' = None
                            /\ pc' = [pc EXCEPT ![t] = "sleeping"]
                            /\ retries' = [retries EXCEPT ![t] = @ + 1]
                            /\ nsleep' = [nsleep EXCEPT ![t] = @ + 1]
                            /\ UNCHANGED <<open, cls_semaphore, held, session,
                                           nreq, outcome, gathered>>
                  ELSE \* no session to close: straight to asyncio.sleep
                       /\ pc' = [pc EXCEPT ![t] = "sleeping"]
                       /\ retries' = [retries EXCEPT ![t] = @ + 1]
                       /\ nsleep' = [nsleep EXCEPT ![t] = @ + 1]
                       /\ UNCHANGED <<cls_session, open, cls_semaphore, held, session,
                                      nreq, outcome, gathered>>
             ELSE \* raise BaseException({... 'status': response.status ...})
                  /\ Finish(t, [kind |-> "err", body |-> NoBody,
                                exc |-> RequestError(t, status)])
                  /\ UNCHANGED <<cls_session, open, retries, nreq, nsleep>>
    /\ UNCHANGED <<cpc, final, sdVars>>
    /\ UNCHANGED fetchVars

\* close_session resumes after 'await cls._session.close()': line 20, then
\* the caller enters asyncio.sleep(retry_after)
CloseSessionEnd(t) ==
    /\ pc[t] = "closing"
    /\ cls_session' = None
    /\ pc' = [pc EXCEPT ![t] = "sleeping"]
    /\ nsleep' = [nsleep EXCEPT ![t] = @ + 1]
    /\ UNCHANGED <<cls_semaphore, open, retries, held, session, nreq, resps, outcome,
                   envVars, composeVars, sdVars>>
    /\ UNCHANGED <<fetchVars, backoff>>

\* the back-off ends and the call re-enters request_with_limit(url, retries),
\* still inside the outer 'async with cls._semaphore'
Wake(t) ==
    /\ pc[t] = "sleeping"
    /\ IF cls_semaphore > 0
       THEN Issue(t)
       ELSE /\ pc' = [pc EXCEPT ![t] = "retryWait"]
            /\ UNCHANGED <<mgrVars, held, session, nreq>>
    /\ UNCHANGED <<retries, nsleep, resps, outcome, envVars, composeVars, sdVars>>
    /\ UNCHANGED <<fetchVars, backoff>>

\* the recursive call gets its slot
AcquireRetry(t) ==
    /\ pc[t] = "retryWait"
    /\ cls_semaphore > 0
    /\ Issue(t)
    /\ UNCHANGED <<retries, nsleep, resps, outcome, envVars, composeVars, sdVars>>
    /\ UNCHANGED <<fetchVars, backoff>>

(***************************************************************************)
(* Steps of a compose call after the fan-out                               *)
(***************************************************************************)
\* gather's future has every result: build final['data'] and return
ComposeReturn(c) ==
    /\ cpc[c] = "gathering"
    /\ GatherReturns(c)
    /\ cpc' = [cpc EXCEPT ![c] = "returned"]
    /\ final' = [final EXCEPT ![c] =
                    [kind |-> "returned", ticker |-> Ticker, asset_type |-> AssetType(c),
                     data |-> Merge(Gathered(c)), exc |-> NoExc]]
    /\ UNCHANGED <<mgrVars, taskVars, envVars, gathered, sdVars>>
    /\ UNCHANGED <<fetchVars, backoff>>

\* gather's future holds an exception: 'await asyncio.gather' raises it
ComposeFail(c) ==
    /\ cpc[c] = "gathering"
    /\ gathered[c] # NoExc
    /\ cpc' = [cpc EXCEPT ![c] = "failed"]
    /\ final' = [final EXCEPT ![c] =
                    [kind |-> "failed", ticker |-> "", asset_type |-> "",
                     data |-> EmptyDict, exc |-> gathered[c]]]
    /\ UNCHANGED <<mgrVars, taskVars, envVars, gathered, sdVars>>
    /\ UNCHANGED <<fetchVars, backoff>>

(***************************************************************************)
(* Shutdown hook (main.py): close_session, called once or twice in a row   *)
(* when no request is being served                                         *)
(***************************************************************************)
Quiescent ==
    /\ \A t \in Tasks : pc[t] \in {"absent", "idle", "done"}
    /\ \A c \in Composes : cpc[c] # "gathering"

SdNext(p) == IF p \in {"up", "closing1"} THEN "closed1" ELSE "closed2"

ShutdownClose ==
    /\ sdpc \in {"up", "closed1"}
    /\ Quiescent
    /\ sdBefore' = <<cls_session, open>>
    /\ sdFirst' = IF sdpc = "up" THEN cls_session ELSE sdFirst
    /\ IF CloseNeeded(cls_session)
       THEN IF cls_session = None
            THEN /\ sdErr' = TRUE
                 /\ sdpc' = SdNext(sdpc)
                 /\ UNCHANGED <<cls_session, open, sdCloses>>
            ELSE /\ open' = open \ {cls_session}
                 /\ sdCloses' = sdCloses + 1
                 /\ sdpc' = IF sdpc = "up" THEN "closing1" ELSE "closing2"
                 /\ UNCHANGED <<cls_session, sdErr>>
       ELSE /\ sdpc' = SdNext(sdpc)
            /\ UNCHANGED <<cls_session, open, sdCloses, sdErr>>
    /\ UNCHANGED <<cls_semaphore, taskVars, envVars, composeVars>>
    /\ UNCHANGED <<fetchVars, backoff>>

ShutdownCloseEnd ==
    /\ sdpc \in {"closing1", "closing2"}
    /\ cls_session' = None
    /\ sdpc' = SdNext(sdpc)
    /\ UNCHANGED <<cls_semaphore, open, taskVars, envVars, composeVars,
                   sdBefore, sdFirst, sdCloses, sdErr>>
    /\ UNCHANGED <<fetchVars, backoff>>

Next ==
    \/ \E t \in Tasks : Call(t)
    \/ \E c \in Composes : ComposeStart(c)
    \/ \E t \in Tasks : Acquire(t)
    \/ \E t \in Tasks : Respond(t)
    \/ \E t \in Tasks : CloseSessionEnd(t)
    \/ \E t \in Tasks : Wake(t)
    \/ \E t \in Tasks : AcquireRetry(t)
    \/ \E c \in Composes : ComposeReturn(c)
    \/ \E c \in Composes : ComposeFail(c)
    \/ ShutdownClose
    \/ ShutdownCloseEnd

Spec == Init /\ [][Next]_vars

(***************************************************************************)
(* A single call of a controller method, from its entry to what it gives   *)
(* its caller: the second specification.  The request goes through         *)
(* request_with_limit, here with one caller.                               *)
(***************************************************************************)
FetchInit ==
    /\ cls_session = None
    /\ cls_semaphore = SemaphoreValue
    /\ open = {}
    /\ cpc = [c \in Composes |-> "absent"]
    /\ pc = [t \in Tasks |-> "absent"]
    /\ retries = [t \in Tasks |-> 0]
    /\ held = [t \in Tasks |-> 0]
    /\ session = [t \in Tasks |-> None]
    /\ nreq = [t \in Tasks |-> 0]
    /\ nsleep = [t \in Tasks |-> 0]
    /\ backoff = [t \in Tasks |-> NoBackoff]
    /\ resps = [t \in Tasks |-> <<>>]
    /\ outcome = [t \in Tasks |-> NoOutcome]
    /\ throttled = 0
    /\ errors = 0
    /\ gathered = [c \in Composes |-> NoExc]
    /\ final = [c \in Composes |-> NoFinal]
    /\ sdpc = "up"
    /\ sdBefore = <<None, {}>>
    /\ sdFirst = None
    /\ sdCloses = 0
    /\ sdErr = FALSE
    /\ fcall \in Calls
    /\ fpc = "called"
    /\ fretries = 0
    /\ acquired = 0
    /\ transport = 0
    /\ upstream = NoAnswer
    /\ fresult = NoResult

otherVars == <<pc, retries, held, session, nreq, nsleep, backoff, resps, outcome, envVars,
               composeVars, sdVars>>

\* the method runs from its entry to 'data = create_task(...)' and its first
\* await: the parameters are validated and the URL is built
FetchEnter ==
    /\ fpc = "called"
    /\ LET before == BeforeRequest(fcall)
       IN  IF before.kind = "request"
           THEN /\ fpc' = "pending"
                /\ UNCHANGED fresult
           ELSE /\ fpc' = "done"
                /\ fresult' = before
    /\ UNCHANGED <<fcall, fretries, acquired, transport, upstream, mgrVars, otherVars>>

\* the task enters request_with_limit, at first or for its retry: 'async with
\* cls._semaphore', get_session() and session.get(url)
FetchIssue ==
    /\ fpc \in {"pending", "sleeping"}
    /\ cls_semaphore > 0
    /\ LET s == GetSession
       IN  /\ cls_session' = s
           /\ open' = open \cup {s}
    /\ cls_semaphore' = cls_semaphore - 1
    /\ acquired' = acquired + 1
    /\ transport' = transport + 1
    /\ fpc' = "inflight"
    /\ UNCHANGED <<fcall, fretries, upstream, fresult, otherVars>>

\* the response arrives: request_with_limit returns the body, retries or
\* raises, and on a return or a raise the controller method runs to its end
FetchRespond ==
    /\ fpc = "inflight"
    /\ \E status \in Statuses :
          IF IsSuccess(status)
          THEN /\ \/ \E body \in Bodies(fcall) :
                        upstream' = [status |-> status, json |-> body]
                  \/ \* a pool with two glossary fields, every pointer varied
                     /\ fcall.ctl \in IndexedControllers
                     /\ \E gi \in GlossaryIndices, a \in Pointers, X \in IndexLists,
                           r \in RecordPointersOf(fcall.ctl) :
                           LET k == FieldTable(fcall.ctl)[1][1]
                           IN  upstream' =
                                 [status |-> status,
                                  json |-> IndexedBody(Pool(fcall.ctl, gi,
                                              <<k, UnknownKey>>, a, X, r))]
                  \/ \* a well-formed pool, the glossary's field names varied
                     /\ fcall.ctl \in IndexedControllers
                     /\ \E ks \in KeyLists(FieldTable(fcall.ctl)), a \in {2, 3},
                           X \in IndexLists :
                           upstream' =
                             [status |-> status,
                              json |-> IndexedBody(Pool(fcall.ctl, JNum(1), ks, a, X, 6))]
               /\ fresult' = AfterTask(fcall, TaskResult(fcall, upstream'.json))
               /\ fpc' = "done"
               /\ cls_semaphore' = SemaphoreValue
               /\ UNCHANGED <<cls_session, open, fretries>>
          ELSE IF ShouldRetry(status, fretries)
          THEN \* close_session() and asyncio.sleep(retry_after)
               /\ upstream' = [status |-> status, json |-> JNull]
               /\ fretries' = fretries + 1
               /\ open' = open \ {cls_session}
               /\ cls_session' = None
               /\ fpc' = "sleeping"
               /\ UNCHANGED <<cls_semaphore, fresult>>
          ELSE /\ upstream' = [status |-> status, json |-> JNull]
               /\ fresult' = Raise("BaseException: Request error.")
               /\ fpc' = "done"
               /\ cls_semaphore' = SemaphoreValue
               /\ UNCHANGED <<cls_session, open, fretries>>
    /\ UNCHANGED <<fcall, acquired, transport, otherVars>>

FetchNext ==
    \/ FetchEnter
    \/ FetchIssue
    \/ FetchRespond

FetchSpec == FetchInit /\ [][FetchNext]_vars

(***************************************************************************)
(* Properties                                                              *)
(***************************************************************************)
Last(seq) == seq[Len(seq)]
InFlight == {t \in Tasks : pc[t] = "inflight"}
Throttled(t) == \E i \in 1..Len(resps[t]) : resps[t][i][1] = 429
StatusesOf(t) == [i \in 1..Len(resps[t]) |-> resps[t][i][1]]

\* C1: in every reachable state at most 2 HTTP requests are in flight, whoever
\* the callers of request_with_limit are (fetches of a compose call and route
\* calls unrelated to it).
C1_AtMostTwoInFlight == Cardinality(InFlight) <= 2

\* two requests in flight, one of a compose call and one of an unrelated route
\* call, while a third caller waits for a slot
C1_Witness ==
    /\ \E t \in ComposeTasks("etf") : pc[t] = "inflight"
    /\ \E t \in DirectTasks : pc[t] = "inflight"
    /\ \E t \in Tasks : pc[t] = "waiting"

\* C2: a call whose first response is 429 and whose retry response is 200
\* returns the body of that 200 response.
C2_RetryReturnsBodyOf200 ==
    \A t \in Tasks :
        StatusesOf(t) = <<429, 200>> =>
            /\ pc[t] = "done"
            /\ outcome[t].kind = "ok"
            /\ outcome[t].body = resps[t][2][2]

\* a call returned after 429 then 200 while another call was throttled too
C2_Witness ==
    \E t, u \in Tasks :
        /\ t # u
        /\ StatusesOf(t) = <<429, 200>>
        /\ outcome[t].kind = "ok"
        /\ Throttled(u)

\* C3: a call that receives 429 on its first request and 429 on its retry fails
\* with an upstream error of status 429 after exactly two HTTP requests; no
\* call ever issues a third request.
C3_SecondThrottleFails ==
    \A t \in Tasks :
        /\ nreq[t] <= 2
        /\ StatusesOf(t) = <<429, 429>> =>
              /\ pc[t] = "done"
              /\ outcome[t].kind = "err"
              /\ outcome[t].exc = [task |-> t, status |-> 429]
              /\ nreq[t] = 2

C3_Witness ==
    \E t \in Tasks : StatusesOf(t) = <<429, 429>> /\ outcome[t].kind = "err"

\* C4 as stated: whenever a request of a call receives a status other than 200
\* and 429, the call has failed with that status after exactly one HTTP
\* request and without any back-off.
C4_Original ==
    \A t \in Tasks :
        (Len(resps[t]) > 0 /\ Last(resps[t])[1] \notin {200, 429}) =>
            /\ pc[t] = "done"
            /\ outcome[t].exc = [task |-> t, status |-> Last(resps[t])[1]]
            /\ nreq[t] = 1
            /\ nsleep[t] = 0

\* C4 amended: the step in which a request receives a status other than 200
\* and 429 ends the call with an upstream error of that status, issues no
\* further request, takes no back-off and leaves the shared session as it was;
\* when it was the first request of the call, exactly one request was issued
\* and no back-off taken at all (a retry that receives it is the call's second
\* request, after the back-off of the first 429).
C4_OtherStatusFailsAtOnce ==
    [][\A t \in Tasks :
          (/\ Len(resps'[t]) = Len(resps[t]) + 1
           /\ Last(resps'[t])[1] \notin {200, 429}) =>
              /\ pc'[t] = "done"
              /\ outcome'[t].kind = "err"
              /\ outcome'[t].exc = [task |-> t, status |-> Last(resps'[t])[1]]
              /\ nreq'[t] = nreq[t]
              /\ nsleep'[t] = nsleep[t]
              /\ cls_session' = cls_session
              /\ open' = open
              /\ Len(resps'[t]) = 1 => (nreq'[t] = 1 /\ nsleep'[t] = 0)
              /\ Len(resps'[t]) = 2 => (nreq'[t] = 2 /\ nsleep'[t] = 1)]_vars

\* a first request failed with 500 while the session stayed open, and a retry
\* of another call failed with 500
C4_Witness ==
    \E t, u \in Tasks :
        /\ StatusesOf(t) = <<500>> /\ outcome[t].kind = "err"
        /\ StatusesOf(u) = <<429, 500>> /\ outcome[u].kind = "err"

\* C5: no caller has a request in flight on a session that has been closed.
C5_NoRequestOnClosedSession ==
    \A t \in Tasks : pc[t] = "inflight" => session[t] \in open

\* C6: at most one open session exists, and every session that exists is the
\* one the manager references or is closed.
C6_NoLeakedSession ==
    /\ Cardinality(open) <= 1
    /\ \A s \in open : s = cls_session

\* C7: a close_session call made when no session exists raises nothing and
\* leaves the manager as it was; after two calls in a row the manager is in the
\* state the first call left (no session referenced) and the former session
\* was closed once.
C7_CloseSessionIdempotent ==
    /\ (sdpc \in {"closed1", "closed2"} /\ sdBefore[1] = None) =>
          /\ ~sdErr
          /\ <<cls_session, open>> = sdBefore
    /\ sdpc \in {"closed1", "closed2"} => cls_session = None
    /\ sdpc = "closed2" =>
          /\ ~sdErr
          /\ <<cls_session, open>> = sdBefore
          /\ sdCloses = (IF sdFirst = None THEN 0 ELSE 1)
          /\ sdFirst \notin open

\* close_session was called twice in a row, the first call on an open session
C7_Witness == sdpc = "closed2" /\ sdFirst # None /\ sdCloses = 1

\* C8: a compose call that has a failed fetch never returns a result; when it
\* fails it hands its caller the very exception one of its fetches raised and
\* no data.
C8_FailureIsAllOrNothing ==
    \A c \in Composes :
        /\ cpc[c] = "returned" =>
              /\ final[c].kind = "returned"
              /\ \A t \in ComposeTasks(c) : outcome[t].kind = "ok"
        /\ cpc[c] = "failed" =>
              /\ final[c].kind = "failed"
              /\ final[c].data = EmptyDict
              /\ \E t \in ComposeTasks(c) :
                    /\ outcome[t].kind = "err"
                    /\ final[c].exc = outcome[t].exc
                    /\ final[c].exc.task = t

\* a compose call failed although another of its fetches had succeeded
C8_Witness ==
    \E c \in Composes :
        /\ cpc[c] = "failed"
        /\ \E t \in ComposeTasks(c) : outcome[t].kind = "ok"
        /\ \E t \in ComposeTasks(c) : outcome[t].kind = "err"

\* C9 as stated: a compose call that has completed, by returning or by
\* failing, has no fetch still running or holding an admission slot.
C9_Original ==
    \A c \in Composes :
        cpc[c] \in {"returned", "failed"} =>
            \A t \in ComposeTasks(c) : pc[t] = "done" /\ held[t] = 0

\* C9 amended: a compose call returns a result only after every one of its
\* fetches has completed and released its slots; it fails once one of its
\* fetches has failed (siblings may then still be running).
C9_ReturnsAfterAllFailsAfterOne ==
    \A c \in Composes :
        /\ cpc[c] = "returned" =>
              \A t \in ComposeTasks(c) : pc[t] = "done" /\ held[t] = 0
        /\ cpc[c] = "failed" =>
              \E t \in ComposeTasks(c) : pc[t] = "done" /\ outcome[t].kind = "err"

\* a compose call returned after one of its fetches went through a retry
C9_Witness ==
    \E c \in Composes :
        /\ cpc[c] = "returned"
        /\ \E t \in ComposeTasks(c) : Throttled(t)

\* C10: when all fetches succeeded the data map of the result has exactly the
\* keys of the requested data types, each holding the data of the envelope of
\* the fetch with that data type, and as many keys as fetches.
ExpectedKeys(c) ==
    IF c = "stock"
    THEN {"historical", "time_series", "balance_sheet", "cash_flow", "income",
          "ratios", "revenue"}
    ELSE {"historical", "time_series"}

C10_OneKeyPerDataType ==
    \A c \in Composes :
        cpc[c] = "returned" =>
            /\ final[c].ticker = Ticker
            /\ final[c].asset_type = AssetType(c)
            /\ DOMAIN final[c].data = ExpectedKeys(c)
            /\ Cardinality(DOMAIN final[c].data) = Len(Fanout(c))
            /\ \A i \in 1..Len(Fanout(c)) :
                  LET env == Envelope(Fanout(c)[i], outcome[<<c, i>>].body)
                  IN  /\ env.data_type \in DOMAIN final[c].data
                      /\ final[c].data[env.data_type] = env.data

C10_Witness == cpc["stock"] = "returned"

(***************************************************************************)
(* Properties of a single controller call (FetchSpec)                      *)
(***************************************************************************)
\* the exceptions a controller raises for a parameter it rejects
ValidationErrors ==
    {InvalidArguments, InvalidAssetType, InvalidRange, InvalidPeriod, NoStockTicker}
Returned == fpc = "done" /\ fresult.kind = "value"
Failed == fpc = "done" /\ fresult.kind = "raise"
\* no admission slot was acquired and nothing was handed to the transport
NoNetwork == acquired = 0 /\ transport = 0 /\ cls_semaphore = SemaphoreValue
Answered200 == fpc = "done" /\ upstream.status = 200

InvalidParameter(c) ==
    \/ /\ c.ctl = "hdc"
       /\ \/ c.range \notin valid_ranges
          \/ c.period \notin valid_periods
          \/ c.asset_type \notin valid_asset_types
    \/ /\ c.ctl \in {"qdc", "tsdc"}
       /\ c.asset_type \notin valid_asset_types

\* C11: get_asset_historical_data with a range, a period or an asset type
\* outside its allowed set, and get_asset_quote_data and get_asset_ts_data
\* with an asset type outside {s, e}, fail with a validation error; on that
\* path no admission slot is acquired and no HTTP request is issued.
C11_InvalidParametersRejected ==
    InvalidParameter(fcall) =>
        /\ NoNetwork
        /\ fpc \in {"called", "done"}
        /\ fpc = "done" => (Failed /\ fresult.exc \in ValidationErrors)

\* the range "2Y" with every other parameter valid was rejected
C11_Witness ==
    /\ fcall = CallOf("hdc", Ticker, "s", "2Y", "Daily")
    /\ Failed
    /\ fresult.exc = InvalidRange
    /\ NoNetwork

\* the periods an income fetch could be meant to allow: those of the
\* historical controller and the default of the income route
C12_AllowedPeriods == valid_periods \cup {"quarterly"}

\* C12: an income fetch whose period is outside the allowed period set issues
\* no HTTP request.
C12_IncomePeriodRejected ==
    (fcall.ctl = "idc" /\ fcall.period \notin C12_AllowedPeriods) => transport = 0

\* C13: every per-data-type fetch called with an empty ticker fails before any
\* HTTP request is issued, and none returns a value for an empty ticker.
C13_EmptyTickerFails ==
    (fcall.ctl \in FetchControllers /\ fcall.ticker = "") =>
        /\ transport = 0
        /\ fpc = "done" => Failed

\* the payload a flat controller's task gave, when it gave one
Payload == TaskResult(fcall, upstream.json)
EmptyPayload ==
    /\ fcall.ctl \in {"hdc", "qdc", "tsdc"}
    /\ Answered200
    /\ Payload.kind = "value"
    /\ Falsy(Payload.v)

\* C14: when the payload of a historical, quote or time-series fetch is empty,
\* the fetch returns {data_type, data} with data that empty value itself.
C14_EmptyPayloadReturnedRaw ==
    EmptyPayload => fresult = Ok(FetchEnvelope(fcall.ctl, Payload.v))

\* the parts of an indexed-reference body, where it has them
NodesOf(json) == DictGet(json, "nodes")
HasTarget(json) ==
    /\ Tag(json) = "dict"
    /\ Tag(NodesOf(json)) = "list"
    /\ Len(Val(NodesOf(json))) >= 3
    /\ Tag(Val(NodesOf(json))[3]) = "dict"
TargetData(json) == DictGet(Val(NodesOf(json))[3], "data")
HasPool(json) ==
    /\ HasTarget(json)
    /\ Tag(TargetData(json)) = "list"
    /\ Len(Val(TargetData(json))) > 0
PoolOf(json) == Val(TargetData(json))
\* x is an index inside the bounds 0..len(data)-1 of the pool
InBounds(pool, x) == Tag(x) = "int" /\ 0 <= Val(x) /\ Val(x) < Len(pool)
Deref(pool, x) == pool[Val(x) + 1]
GlossaryIndexOf(ctl, json) == DictGet(PoolOf(json)[1], GlossaryField(ctl))
HasGlossary(ctl, json) ==
    /\ HasPool(json)
    /\ Tag(PoolOf(json)[1]) = "dict"
    /\ InBounds(PoolOf(json), GlossaryIndexOf(ctl, json))
    /\ Tag(Deref(PoolOf(json), GlossaryIndexOf(ctl, json))) = "dict"
\* the glossary's items <<field, g>>
GlossaryOf(ctl, json) == Val(Deref(PoolOf(json), GlossaryIndexOf(ctl, json)))
\* every index of the body is inside the bounds and points to what it should:
\* the glossary index to a non-empty mapping, each of its values to a list of
\* indices
WellFormed(ctl, json) ==
    /\ HasGlossary(ctl, json)
    /\ Len(GlossaryOf(ctl, json)) > 0
    /\ \A i \in 1..Len(GlossaryOf(ctl, json)) :
          LET g == GlossaryOf(ctl, json)[i][2]
          IN  /\ InBounds(PoolOf(json), g)
              /\ Tag(Deref(PoolOf(json), g)) = "list"
              /\ \A j \in 1..Len(Val(Deref(PoolOf(json), g))) :
                    InBounds(PoolOf(json), Val(Deref(PoolOf(json), g))[j])
\* [data[i] for i in data[g]], for the i-th glossary pair of a well-formed body
Expected(ctl, json, i) ==
    LET pool == PoolOf(json)
        list == Val(Deref(pool, GlossaryOf(ctl, json)[i][2]))
    IN  JList([j \in 1..Len(list) |-> Deref(pool, list[j])])
\* the label a controller's table gives a field name
Rename(ctl, field) == TableGet(LabelTable(ctl, fcall.asset_type), field)

EnvelopeData == DictGet(fresult.v, "data")
\* the one mapping inside the list an indexed decode returns
Mapping == Val(Val(EnvelopeData)[1])
RelabelledDecode ==
    /\ fcall.ctl \in {"cdc", "idc", "ratios_dc"}
    /\ Answered200
    /\ WellFormed(fcall.ctl, upstream.json)

SameLabel(ctl, json, label) ==
    {i \in 1..Len(GlossaryOf(ctl, json)) : Rename(ctl, GlossaryOf(ctl, json)[i][1]) = label}
LastOf(S) == CHOOSE i \in S : \A j \in S : j <= i

FewerThanThreeNodes(json) ==
    /\ Tag(json) = "dict"
    /\ \/ Tag(NodesOf(json)) = "NoneType"
       \/ Tag(NodesOf(json)) = "list" /\ Len(Val(NodesOf(json))) < 3
NoDataInTarget(json) == HasTarget(json) /\ Falsy(TargetData(json))
NoGlossaryField(ctl, json) ==
    /\ HasPool(json)
    /\ Tag(PoolOf(json)[1]) = "dict"
    /\ ~HasKey(Val(PoolOf(json)[1]), GlossaryField(ctl))
\* the exception extract_financial_data is to raise for a body with a part
\* missing
MissingPart(ctl, json) ==
    IF FewerThanThreeNodes(json) THEN NoTargetNode
    ELSE IF NoDataInTarget(json) THEN NoDataInNode
    ELSE IF NoGlossaryField(ctl, json) THEN NoGlossaryIndex
    ELSE ""

IndexOutOfBounds(ctl, json) ==
    /\ HasPool(json)
    /\ Tag(PoolOf(json)[1]) = "dict"
    /\ Tag(GlossaryIndexOf(ctl, json)) = "int"
    /\ \/ ~InBounds(PoolOf(json), GlossaryIndexOf(ctl, json))
       \/ /\ HasGlossary(ctl, json)
          /\ \E i \in 1..Len(GlossaryOf(ctl, json)) :
                LET g == GlossaryOf(ctl, json)[i][2]
                IN  /\ Tag(g) = "int"
                    /\ \/ ~InBounds(PoolOf(json), g)
                       \/ /\ Tag(Deref(PoolOf(json), g)) = "list"
                          /\ \E j \in 1..Len(Val(Deref(PoolOf(json), g))) :
                                LET x == Val(Deref(PoolOf(json), g))[j]
                                IN  Tag(x) = "int" /\ ~InBounds(PoolOf(json), x)

\* C17: decoding fails whenever an index it follows lies outside the bounds
\* 0..len(data)-1 of the value array, a negative index included; such an index
\* never yields a result.
C17_OutOfBoundsFails ==
    (fcall.ctl \in IndexedControllers /\ Answered200
        /\ IndexOutOfBounds(fcall.ctl, upstream.json)) => Failed

\* the revenue decode of a response has returned
RevenueDecoded ==
    /\ fcall.ctl = "revenue_dc"
    /\ Answered200
    /\ Returned
\* the glossary and the records of its i-th field, as the revenue decode that
\* has returned reached them
RevenueGlossary ==
    Val(At(PoolOf(upstream.json), Val(GlossaryIndexOf("revenue_dc", upstream.json))))
FieldRecords(i) ==
    LET pool == PoolOf(upstream.json)
        list == Val(At(pool, Val(RevenueGlossary[i][2])))
    IN  [j \in 1..Len(list) |-> At(pool, Val(list[j]))]
Unlimited(record) == ~HasKey(Val(record), "limited")

\* C18: in the revenue decode every field of the glossary has, in glossary
\* order, the records of its index list that carry no key limited, in
\* index-list order, each with every one of its own fields resolved by one
\* lookup into the value array; no record with the key limited is in the result.
C18_RevenueRecordsUnlimited ==
    RevenueDecoded =>
        LET pool == PoolOf(upstream.json)
            result == Val(EnvelopeData)
        IN  /\ Len(result) = Len(RevenueGlossary)
            /\ \A i \in 1..Len(result) :
                  LET kept == SelectSeq(FieldRecords(i), Unlimited)
                      out == Val(result[i][2])
                  IN  /\ result[i][1] = RevenueGlossary[i][1]
                      /\ Len(out) = Len(kept)
                      /\ \A n \in 1..Len(out) :
                            /\ ~HasKey(Val(out[n]), "limited")
                            /\ Len(Val(out[n])) = Len(Val(kept[n]))
                            /\ \A f \in 1..Len(Val(out[n])) :
                                  /\ Val(out[n])[f][1] = Val(kept[n])[f][1]
                                  /\ Val(out[n])[f][2] = At(pool, Val(Val(kept[n])[f][2]))

\* a field whose index list names a limited record and then an unlimited one
\* has the unlimited record alone, resolved
C18_Witness ==
    /\ RevenueDecoded
    /\ Len(RevenueGlossary) > 0
    /\ Len(FieldRecords(1)) = 2
    /\ ~Unlimited(FieldRecords(1)[1])
    /\ Unlimited(FieldRecords(1)[2])
    /\ Len(Val(Val(EnvelopeData)[1][2])) = 1
    /\ Val(Val(Val(EnvelopeData)[1][2])[1])[2][2] = PoolOf(upstream.json)[8]

\* C19: every indexed-reference decode that returns, revenue included, returns
\* a list of exactly one element, which is the mapping of the fields.
C19_SingleElementList ==
    (fcall.ctl \in IndexedControllers /\ Answered200 /\ Returned) =>
        /\ Tag(EnvelopeData) = "list"
        /\ Len(Val(EnvelopeData)) = 1
        /\ Tag(Val(EnvelopeData)[1]) = "dict"

\* the records a returned fetch has passed to convert_keys_to_labels, each with
\* its table and its output: <<table, input items, output items>>
Relabelled ==
    IF ~(Answered200 /\ Returned) THEN <<>>
    ELSE CASE fcall.ctl = "hdc" /\ Tag(EnvelopeData) = "list" ->
                [i \in 1..Len(Val(Payload.v)) |->
                    <<json_to_label_map, Val(Val(Payload.v)[i]), Val(Val(EnvelopeData)[i])>>]
           [] fcall.ctl = "qdc" /\ Tag(EnvelopeData) = "dict" ->
                << <<LabelTable("qdc", fcall.asset_type), Val(Payload.v), Val(EnvelopeData)>> >>
           [] fcall.ctl \in {"cdc", "idc", "ratios_dc"} ->
                << <<LabelTable(fcall.ctl, ""),
                     Val(financial_data(fcall.ctl, upstream.json).v), Mapping>> >>
           [] OTHER -> <<>>
\* table.get(key, key), read off the table
LabelOf(table, key) ==
    IF \E i \in 1..Len(table) : table[i][1] = key
    THEN table[CHOOSE i \in 1..Len(table) : table[i][1] = key][2]
    ELSE key
KeysOf(items) == {items[i][1] : i \in 1..Len(items)}

\* C20 as stated: in every relabelled record each key of the table stands
\* under its label, each other key under itself, and the value under rename(k)
\* in the output is the value under k in the input.
C20_Original ==
    \A r \in 1..Len(Relabelled) :
        LET table == Relabelled[r][1]
            input == Relabelled[r][2]
            output == Relabelled[r][3]
        IN  /\ KeysOf(output) = {LabelOf(table, k) : k \in KeysOf(input)}
            /\ \A k \in KeysOf(input) :
                  Lookup(output, LabelOf(table, k)) = Lookup(input, k)

\* C20, amended: the keys of the output are exactly the keys of the input,
\* each key of the table replaced by its label and every other key unchanged;
\* under rename(k) stands the value the input has under k whenever no other
\* key of the input has the same rename, and else the value of one of the
\* input keys with that rename.
C20_RenameKeepsValues ==
    \A r \in 1..Len(Relabelled) :
        LET table == Relabelled[r][1]
            input == Relabelled[r][2]
            output == Relabelled[r][3]
            same(k) == {k2 \in KeysOf(input) : LabelOf(table, k2) = LabelOf(table, k)}
        IN  /\ KeysOf(output) = {LabelOf(table, k) : k \in KeysOf(input)}
            /\ Len(output) = Cardinality(KeysOf(output))
            /\ \A k \in KeysOf(input) :
                  \E k2 \in same(k) :
                      Lookup(output, LabelOf(table, k)) = Lookup(input, k2)

\* a historical entry with a table key and an unknown key has been relabelled
C20_Witness ==
    /\ fcall.ctl = "hdc"
    /\ Len(Relabelled) > 0
    /\ KeysOf(Relabelled[1][2]) = {"t", UnknownKey}
    /\ KeysOf(Relabelled[1][3]) = {"date", UnknownKey}
    /\ Lookup(Relabelled[1][3], "date") = Lookup(Relabelled[1][2], "t")
    /\ Lookup(Relabelled[1][3], UnknownKey) = Lookup(Relabelled[1][2], UnknownKey)

(***************************************************************************)
(* Properties of the back-off, the admission slots and the sessions (Spec) *)
(***************************************************************************)
\* task t receives, in this step, the first 429 of its call
FirstThrottle(t) ==
    /\ Len(resps'[t]) = Len(resps[t]) + 1
    /\ Last(resps'[t])[1] = 429
    /\ retries[t] = 0
\* task t sends, in this step, a request after its first one
Reissue(t) == nreq'[t] = nreq[t] + 1 /\ nreq[t] >= 1

\* C21: on the first 429 of a call the retry-after duration is read (5 seconds
\* without a Retry-After header), no request is sent and the session the
\* manager shares at that moment is closed; the suspension for that duration
\* begins once, after the close, when the manager shares no session; the
\* request is reissued only by a call whose suspension has ended, and once.
C21_BackoffThenReissue ==
    [][\A t \in Tasks :
          /\ FirstThrottle(t) =>
                /\ backoff'[t].retry_after =
                      (IF backoff'[t].header = NoHeader THEN 5 ELSE 10)
                /\ backoff'[t].header \in {NoHeader, <<1, 0>>}
                /\ nreq'[t] = nreq[t]
                /\ pc'[t] \in {"closing", "sleeping"}
                /\ cls_session # None => cls_session \notin open'
          /\ (pc[t] # "sleeping" /\ pc'[t] = "sleeping") =>
                /\ pc[t] \in {"inflight", "closing"}
                /\ nsleep[t] = 0 /\ nsleep'[t] = 1
                /\ cls_session' = None
                /\ backoff'[t].retry_after =
                      (IF backoff'[t].header = NoHeader THEN 5 ELSE 10)
          /\ (pc[t] = "sleeping" /\ pc'[t] # "sleeping") =>
                pc'[t] \in {"inflight", "retryWait"}
          /\ Reissue(t) =>
                /\ pc[t] \in {"sleeping", "retryWait"}
                /\ nsleep[t] = 1
                /\ nreq[t] = 1
                /\ retries[t] = 1
                /\ backoff'[t] = backoff[t]]_vars

\* a call that read no Retry-After header has reissued its request after a
\* suspension of 5 seconds
C21_Witness ==
    \E t \in Tasks :
        /\ pc[t] = "inflight"
        /\ nreq[t] = 2
        /\ nsleep[t] = 1
        /\ backoff[t] = [header |-> NoHeader, retry_after |-> 5]

(***************************************************************************)
(* Properties of relabelling and of the time-series decode (FetchSpec)     *)
(***************************************************************************)
\* C22: the keys of a relabelled record are unique, and when the input has
\* both a table key k and the raw key table[k], the entry table[k] of the
\* output holds the value of k, whatever the order of the two in the input.
C22_TableKeyWins ==
    \A r \in 1..Len(Relabelled) :
        LET table == Relabelled[r][1]
            input == Relabelled[r][2]
            output == Relabelled[r][3]
        IN  /\ Len(output) = Cardinality(KeysOf(output))
            /\ \A k \in KeysOf(input) :
                  (LabelOf(table, k) # k /\ LabelOf(table, k) \in KeysOf(input)) =>
                      Lookup(output, LabelOf(table, k)) = Lookup(input, k)

\* the entries of a non-empty time-series payload
TsEntriesOf == Val(Payload.v)
TsDecode ==
    /\ fcall.ctl = "tsdc"
    /\ Answered200
    /\ Payload.kind = "value"
    /\ Tag(Payload.v) = "list"
    /\ Len(Val(Payload.v)) > 0
IsNumber(j) == Tag(j) \in {"int", "float"}
TwoElements(entry) == Tag(entry) = "list" /\ Len(Val(entry)) = 2
NumberPair(entry) ==
    TwoElements(entry) /\ IsNumber(Val(entry)[1]) /\ IsNumber(Val(entry)[2])

\* C23: for a non-empty time-series payload of [timestamp_ms, closing_price]
\* pairs the fetch returns one record per pair, in input order, each with
\* exactly the keys date and closing_price, the price equal to the pair's
\* second element and the date a function of the first element alone; with an
\* entry that is not a two-element pair the fetch fails.
C23_OneRecordPerPair ==
    TsDecode =>
        /\ (\E i \in 1..Len(TsEntriesOf) : ~TwoElements(TsEntriesOf[i])) => Failed
        /\ (\A i \in 1..Len(TsEntriesOf) : NumberPair(TsEntriesOf[i])) =>
              /\ Returned
              /\ Tag(EnvelopeData) = "list"
              /\ Len(Val(EnvelopeData)) = Len(TsEntriesOf)
              /\ \A i \in 1..Len(TsEntriesOf) :
                    LET record == Val(Val(EnvelopeData)[i])
                    IN  /\ Len(record) = 2
                        /\ KeysOf(record) = {"date", "closing_price"}
                        /\ IsNumber(Lookup(record, "closing_price"))
                        /\ Val(Lookup(record, "closing_price")) = Val(Val(TsEntriesOf[i])[2])
                        /\ \A j \in 1..Len(TsEntriesOf) :
                              Val(TsEntriesOf[j])[1] = Val(TsEntriesOf[i])[1] =>
                                  Lookup(Val(Val(EnvelopeData)[j]), "date")
                                      = Lookup(record, "date")

\* two pairs with one timestamp and different prices have given two records
\* with one date and those prices, in order
C23_Witness ==
    /\ TsDecode
    /\ Returned
    /\ Len(TsEntriesOf) = 2
    /\ Val(TsEntriesOf[1])[1] = Val(TsEntriesOf[2])[1]
    /\ Val(Val(TsEntriesOf[1])[2]) = 9
    /\ Val(Val(TsEntriesOf[2])[2]) = 7
    /\ Val(Lookup(Val(Val(EnvelopeData)[1]), "closing_price")) = 9
    /\ Val(Lookup(Val(Val(EnvelopeData)[2]), "closing_price")) = 7

(***************************************************************************)
(* Properties of the admission slots and the sessions (Spec)               *)
(***************************************************************************)
\* the callers suspended in 'async with cls._semaphore'
WaitingForSlot == {t \in Tasks : pc[t] \in {"waiting", "retryWait"}}
\* every slot is held by a caller that itself waits for a slot: no slot is
\* ever released again
AllSlotsHeldByWaiters ==
    /\ cls_semaphore = 0
    /\ \A t \in Tasks : held[t] > 0 => pc[t] = "retryWait"

\* C24: no reachable state has callers that all wait forever for an admission
\* slot: whenever a caller waits, a slot is free or is held by a call that
\* still has a response or a back-off to come.
C24_NoCallerWaitsForever == WaitingForSlot # {} => ~AllSlotsHeldByWaiters

\* C25: a call of request_with_limit holds at most one admission slot at any
\* time, in its back-off and in its retry too.
C25_AtMostOneSlotPerCall == \A t \in Tasks : held[t] <= 1

\* the slots held by the calls of a set of tasks
RECURSIVE SlotsHeld(_)
SlotsHeld(S) ==
    IF S = {} THEN 0
    ELSE LET t == CHOOSE x \in S : TRUE IN held[t] + SlotsHeld(S \ {t})
Active(t) == pc[t] \in {"waiting", "inflight", "closing", "sleeping", "retryWait"}

\* C26: the free slots and the slots held by active calls add up to 2; with
\* no call active both slots are free; a call that has ended, in failure too
\* (the second 429 included), holds no slot.
C26_SlotsConserved ==
    /\ cls_semaphore + SlotsHeld({t \in Tasks : Active(t)}) = 2
    /\ cls_semaphore >= 0
    /\ (\A t \in Tasks : ~Active(t)) => cls_semaphore = 2
    /\ \A t \in Tasks : ~Active(t) => held[t] = 0

\* a call that held two slots in its retry has failed on the second 429, and
\* with no call active both slots are free
C26_Witness ==
    /\ \A t \in Tasks : ~Active(t)
    /\ cls_semaphore = 2
    /\ \E t \in Tasks :
          /\ pc[t] = "done"
          /\ outcome[t].kind = "err"
          /\ StatusesOf(t) = <<429, 429>>

\* C27: the retry request of a throttled call is not issued on the session
\* that received the 429, but on a session created after that session was
\* closed: when the retry is issued, the session of the 429 is closed and the
\* retry's session is another one.
C27_RetryOnSessionCreatedAfterClose ==
    [][\A t \in Tasks :
          Reissue(t) =>
              /\ session'[t] # session[t]
              /\ session[t] \notin open]_vars

\* a retry is in flight on the second session, created after the first one,
\* which received the 429, was closed
C27_Witness ==
    \E t \in Tasks :
        /\ pc[t] = "inflight"
        /\ nreq[t] = 2
        /\ StatusesOf(t) = <<429>>
        /\ session[t] = 2
        /\ open = {2}

\* C28: every request is started on a session that is open at that moment,
\* the one the manager shares, whatever close_session calls came before.
C28_RequestStartsOnOpenSession ==
    [][\A t \in Tasks :
          nreq'[t] = nreq[t] + 1 =>
              /\ session'[t] # None
              /\ session'[t] \in open'
              /\ session'[t] = cls_session'
              /\ cls_session \notin open => session'[t] # cls_session]_vars

\* a request is in flight on an open session that get_session created while
\* another caller was inside close_session, its session closed
C28_Witness ==
    \E t, u \in Tasks :
        /\ pc[u] = "closing"
        /\ session[u] \notin open
        /\ pc[t] = "inflight"
        /\ session[t] \in open
        /\ session[t] = cls_session
        /\ nreq[t] = 1

\* the composed result as a function of the upstream's responses alone: under
\* each fetch's data type, the body of the last response to that fetch
ResultOf(c) ==
    [kind |-> "returned", ticker |-> Ticker, asset_type |-> AssetType(c),
     data |-> [k \in {DataType(Fanout(c)[i]) : i \in 1..Len(Fanout(c))} |->
                 LET i == CHOOSE j \in 1..Len(Fanout(c)) : DataType(Fanout(c)[j]) = k
                 IN  <<Fanout(c)[i], Last(resps[<<c, i>>])[2]>>],
     exc |-> NoExc]

\* C29: the result of compose_stock_data and of compose_etf_data is fixed by
\* the upstream's responses to the fetches: whatever the order in which the
\* fetches were admitted and completed, the same responses give the same
\* ticker, asset_type and data map.
C29_ResultFixedByResponses ==
    \A c \in Composes :
        cpc[c] = "returned" =>
            /\ \A t \in ComposeTasks(c) : Len(resps[t]) > 0 /\ Last(resps[t])[1] = 200
            /\ final[c] = ResultOf(c)

\* a compose call has returned whose first fetch was throttled and retried
\* and whose second fetch was answered at once
C29_Witness ==
    /\ cpc["etf"] = "returned"
    /\ StatusesOf(<<"etf", 1>>) = <<429, 200>>
    /\ StatusesOf(<<"etf", 2>>) = <<200>>
    /\ final["etf"].data["historical"] = <<"hdc", <<<<"etf", 1>>, 2>>>>
    /\ final["etf"].data["time_series"] = <<"tsdc", <<<<"etf", 2>>, 1>>>>

\* the label tables of the controllers
LabelTables ==
    {json_to_label_map, stock_quote_data_keys_to_labels, etf_quote_data_keys_to_labels,
     cash_flow_keys_to_labels, income_data_keys_to_labels, financial_ratios_keys_to_labels}

\* C30: in each of the six label tables no label is a key of the table and
\* distinct keys have distinct labels; so relabelling a relabelled record
\* changes nothing, and a record whose keys are all table keys keeps its
\* number of fields.
C30_RelabelIdempotent ==
    /\ \A table \in LabelTables :
          \* as many distinct names as keys and labels together: no two keys,
          \* no two labels and no key and label are the same name
          Cardinality(KeysOf(table) \cup {table[i][2] : i \in 1..Len(table)})
              = 2 * Len(table)
    /\ \A r \in 1..Len(Relabelled) :
          LET table == Relabelled[r][1]
              input == Relabelled[r][2]
              output == Relabelled[r][3]
          IN  /\ table \in LabelTables
              /\ Relabel(table, output) = output
              /\ KeysOf(input) \subseteq KeysOf(table) => Len(output) = Len(input)

\* a record of two table keys has been relabelled to a record of their two
\* labels
C30_Witness ==
    \E r \in 1..Len(Relabelled) :
        LET table == Relabelled[r][1]
        IN  /\ KeysOf(Relabelled[r][2]) = {table[1][1], table[2][1]}
            /\ Len(Relabelled[r][3]) = 2
            /\ KeysOf(Relabelled[r][3]) = {table[1][2], table[2][2]}

====
